---------------------------- MODULE Spec2Model ----------------------------
(***************************************************************************)
(* Taint-score engine: the score algebra (primitives/score.rs), the block  *)
(* cache (cache.rs), the three store tables and the transfer recorder      *)
(* (score_db.rs), the block pipeline (blockchain.rs) and the driver        *)
(* (main.rs).                                                              *)
(*                                                                         *)
(* Maps (BTreeMap, MDBX tables) are functions whose DOMAIN is the key set. *)
(* Option<T> is a set with at most one element.  U256 amounts are naturals *)
(* that stay far below 2^256 within the bounds, so `+` never wraps; a `-`  *)
(* that wraps below zero shows as a negative number.                       *)
(***************************************************************************)
EXTENDS Integers, Sequences, FiniteSets, TLC

(***************************************************************************)
(* Bounds of the model and the scaled-down configuration.                  *)
(***************************************************************************)
\* Number of blocks the driver loop covers (INI_BLOCK_NUMBER_TC .. END_BLOCK_NUMBER).
NumBlocks == 3
\* Largest number of events (fee, frame, self-destruct, reward, failed trace)
\* the pipeline reads after a bootstrap.
MaxOps == 4
\* Largest number of events the chain holds in SpecReplay, where the chain
\* source gives the same response to the same request.
ReplayOps == 2
\* Largest amount in SpecSplit, the specification of the pure split.
MaxSplit == 6

\* The accounts of the model: "t" is a TC pool, "m" the block miner.
Addr == {"t", "a", "m"}
TC_ETH_ADDRESS == {"t"}
block_miner == "m"
\* Balances the chain source reports for an account nobody has touched yet.
ChainBalances == {0, 2}
\* Values carried by call frames and by coinbase transfers.
Values == {1}
\* (fee paid by the sender, fee credited to the miner) of a transaction.
Fees == {<<0, 0>>, <<1, 1>>, <<2, 1>>}

\* The block range, scaled down: the bootstrap block is block 0.
INI_BLOCK_NUMBER_TC == 1
END_BLOCK_NUMBER == INI_BLOCK_NUMBER_TC + NumBlocks - 1

EmptyMap == [x \in {} |-> 0]
Put(map, k, v) == [x \in DOMAIN map \cup {k} |-> IF x = k THEN v ELSE map[x]]
Remove(map, k) == [x \in DOMAIN map \ {k} |-> map[x]]
SetMax(S) == CHOOSE x \in S : \A y \in S : y <= x

(***************************************************************************)
(* Score algebra (primitives/score.rs).                                    *)
(***************************************************************************)
\* Score::new panics when dirty_amount > balance.
new_panics(balance, dirty_amount) == dirty_amount > balance
new(balance, dirty_amount) == [balance |-> balance, dirty_amount |-> dirty_amount]
new_clean(balance) == new(balance, 0)
\* A seed score that carries no dirty amount.
new_dirty_clean(balance) == [balance |-> balance, dirty_amount |-> 0]

new_dirty(balance) == new(balance, balance)
as_dirty(score) == [balance |-> score.balance, dirty_amount |-> score.balance]
is_dirty(score) == score.dirty_amount # 0

\* A ceiling computed as (n + d) / d.
div_ceil_rounding_up(n, d) == (n + d) \div d

\* A division that adds one whatever the remainder.
div_ceil_plus_one(n, d) == (n \div d) + 1

\* U512::div_ceil: quotient, plus one when the remainder is not zero.
div_ceil(n, d) == IF n % d # 0 THEN (n \div d) + 1 ELSE n \div d

\* with_same_uncleanliness_ceil panics on a zero divisor and in Score::new.
split_dirty(balance, proportion) ==
    div_ceil(balance * proportion.dirty_amount, proportion.balance)
split_panics(balance, proportion) ==
    \/ proportion.balance = 0
    \/ new_panics(balance, split_dirty(balance, proportion))
with_same_uncleanliness_ceil(balance, proportion) ==
    new(balance, split_dirty(balance, proportion))

\* A subtraction that leaves the dirty amount with the sender.
sub_keeping_dirt(a, b) == [balance |-> a.balance - b.balance,
                           dirty_amount |-> a.dirty_amount]

add(a, b) == [balance |-> a.balance + b.balance,
              dirty_amount |-> a.dirty_amount + b.dirty_amount]
sub(a, b) == [balance |-> a.balance - b.balance,
              dirty_amount |-> a.dirty_amount - b.dirty_amount]

(***************************************************************************)
(* Store tables (score_db.rs).  A view is the content of the three tables  *)
(* as one transaction sees them.                                           *)
(*   address_score   : AddressKey -> Score                                 *)
(*   block_snapshots : dup table, the set of (block, address, score)       *)
(*   address_history : AddressKey -> dup(u64), a sorted set per address    *)
(***************************************************************************)
EmptyView == [address_score |-> EmptyMap, block_snapshots |-> {},
              address_history |-> [a \in Addr |-> {}]]

\* A clear that leaves the tables as they are.
clear_nothing(view) == view

clear(view) == EmptyView

\* The smallest key of BlockSnapshotTable instead of the largest.
get_first_block_number(view) ==
    IF view.block_snapshots = {} THEN {}
    ELSE {CHOOSE b \in {r.block : r \in view.block_snapshots} :
              \A r \in view.block_snapshots : b <= r.block}

\* The largest key of BlockSnapshotTable, as a set of at most one element.
get_last_block_number(view) ==
    IF view.block_snapshots = {} THEN {}
    ELSE {SetMax({r.block : r \in view.block_snapshots})}

\* A flush that records every cached address, clean or not.
flush_entry_recording_all(view, address, score, block_number) ==
    [address_score |-> IF is_dirty(score) THEN Put(view.address_score, address, score)
                       ELSE Remove(view.address_score, address),
     block_snapshots |-> view.block_snapshots \cup
                  {[block |-> block_number, address |-> address, score |-> score]},
     address_history |-> [view.address_history EXCEPT ![address] = @ \cup {block_number}]]

\* A flush that keeps an address in AddressScoreTable when it turns clean.
flush_entry_keeping_clean(view, address, score, block_number) ==
    IF address \in DOMAIN view.address_score \/ is_dirty(score)
    THEN [address_score |-> Put(view.address_score, address, score),
          block_snapshots |-> view.block_snapshots \cup
                  {[block |-> block_number, address |-> address, score |-> score]},
          address_history |->
              [view.address_history EXCEPT ![address] = @ \cup {block_number}]]
    ELSE view

\* A flush that leaves the history out when an address turns dirty.
flush_entry_without_history(view, address, score, block_number) ==
    LET snap == view.block_snapshots \cup
                  {[block |-> block_number, address |-> address, score |-> score]}
    IN  IF address \in DOMAIN view.address_score
        THEN [address_score |-> IF is_dirty(score)
                                THEN Put(view.address_score, address, score)
                                ELSE Remove(view.address_score, address),
              block_snapshots |-> snap,
              address_history |->
                  [view.address_history EXCEPT ![address] = @ \cup {block_number}]]
        ELSE IF is_dirty(score)
             THEN [address_score |-> Put(view.address_score, address, score),
                   block_snapshots |-> snap,
                   address_history |-> view.address_history]
             ELSE view

\* A flush that does not record the block in which an address turns clean.
flush_entry_unrecorded_clean(view, address, score, block_number) ==
    IF is_dirty(score)
    THEN [address_score |-> Put(view.address_score, address, score),
          block_snapshots |-> view.block_snapshots \cup
                  {[block |-> block_number, address |-> address, score |-> score]},
          address_history |->
              [view.address_history EXCEPT ![address] = @ \cup {block_number}]]
    ELSE [view EXCEPT !.address_score = Remove(@, address)]

\* A flush that records every change of an address that has a history.
flush_entry_by_history(view, address, score, block_number) ==
    LET hist == [view.address_history EXCEPT ![address] = @ \cup {block_number}]
        snap == view.block_snapshots \cup
                  {[block |-> block_number, address |-> address, score |-> score]}
    IN  IF view.address_history[address] # {} \/ is_dirty(score)
        THEN [address_score |-> IF is_dirty(score)
                                THEN Put(view.address_score, address, score)
                                ELSE Remove(view.address_score, address),
              block_snapshots |-> snap, address_history |-> hist]
        ELSE view

\* One iteration of the loop of flush_cache.
flush_entry(view, address, score, block_number) ==
    LET hist == [view.address_history EXCEPT ![address] = @ \cup {block_number}]
        snap == view.block_snapshots \cup
                  {[block |-> block_number, address |-> address, score |-> score]}
    IN  IF address \in DOMAIN view.address_score
        THEN [address_score |-> IF is_dirty(score)
                                THEN Put(view.address_score, address, score)
                                ELSE Remove(view.address_score, address),
              block_snapshots |-> snap, address_history |-> hist]
        ELSE IF is_dirty(score)
             THEN [address_score |-> Put(view.address_score, address, score),
                   block_snapshots |-> snap, address_history |-> hist]
             ELSE view

RECURSIVE flush_entries(_, _, _, _)
flush_entries(view, data, todo, block_number) ==
    IF todo = {} THEN view
    ELSE LET address == CHOOSE x \in todo : TRUE
         IN  flush_entries(flush_entry(view, address, data[address], block_number),
                           data, todo \ {address}, block_number)

\* flush_cache over the drained cache map.
flush_cache(view, data, block_number) ==
    flush_entries(view, data, DOMAIN data, block_number)

\* A lookup that reads AddressScoreTable only.
get_score_stored(view, data, address) == IF address \in DOMAIN view.address_score THEN {view.address_score[address]} ELSE {}

\* get_score: the cache first, then AddressScoreTable.
get_score(view, data, address) ==
    IF address \in DOMAIN data THEN {data[address]}
    ELSE IF address \in DOMAIN view.address_score THEN {view.address_score[address]}
    ELSE {}


(***************************************************************************)
(* Transfer recorder (score_db.rs).  `balance` is the chain source's       *)
(* answer to get_balance at block_number - 1; it is used only when the     *)
(* address has no score in the cache or in AddressScoreTable.  `asked` is  *)
(* the set of addresses whose balance was requested.                       *)
(***************************************************************************)
update_sender_state(view, data, address, transfer_value, balance) ==
    LET prior == get_score(view, data, address)
        sender_score == IF prior # {} THEN CHOOSE s \in prior : TRUE
                        ELSE new_clean(balance)
        split_fail == prior # {} /\ split_panics(transfer_value, sender_score)
        transfer_score ==
            IF prior = {} \/ split_fail THEN new_clean(transfer_value)
            ELSE with_same_uncleanliness_ceil(transfer_value, sender_score)
        panic == split_fail \/ transfer_score.balance > sender_score.balance
    IN  [panic |-> panic,
         data |-> IF panic THEN data
                  ELSE Put(data, address, sub(sender_score, transfer_score)),
         transfer_score |-> transfer_score,
         asked |-> IF prior = {} THEN {address} ELSE {}]

\* A recipient update that stores the transfer score instead of adding it.
update_recipient_state_overwriting(view, data, address, transfer_score, balance) ==
    [data |-> Put(data, address,
                  IF address \in TC_ETH_ADDRESS THEN as_dirty(transfer_score)
                  ELSE transfer_score),
     asked |-> IF get_score(view, data, address) = {} THEN {address} ELSE {}]

\* A recipient update that credits a source address like any other address.
update_recipient_state_plain(view, data, address, transfer_score, balance) ==
    LET prior == get_score(view, data, address)
        recipient_score == IF prior # {} THEN CHOOSE s \in prior : TRUE
                           ELSE new_clean(balance)
    IN  [data |-> Put(data, address, add(recipient_score, transfer_score)),
         asked |-> IF prior = {} THEN {address} ELSE {}]

\* A recipient update that credits every recipient like a source address.
update_recipient_state_tainting(view, data, address, transfer_score, balance) ==
    LET prior == get_score(view, data, address)
        recipient_score == IF prior # {} THEN CHOOSE s \in prior : TRUE
                           ELSE new_clean(balance)
    IN  [data |-> Put(data, address, add(recipient_score, as_dirty(transfer_score))),
         asked |-> IF prior = {} THEN {address} ELSE {}]

update_recipient_state(view, data, address, transfer_score, balance) ==
    LET ts == IF address \in TC_ETH_ADDRESS THEN as_dirty(transfer_score)
              ELSE transfer_score
        prior == get_score(view, data, address)
        recipient_score == IF prior # {} THEN CHOOSE s \in prior : TRUE
                           ELSE new_clean(balance)
    IN  [data |-> Put(data, address, add(recipient_score, ts)),
         asked |-> IF prior = {} THEN {address} ELSE {}]

\* A transfer that credits the recipient with everything the sender lost.
record_transfer_unrebased(view, data, sender_address, recipient_address, sender_value, recipient_value, sender_balance, recipient_balance) ==
    LET snd == IF sender_address # {}
               THEN update_sender_state(view, data, CHOOSE s \in sender_address : TRUE,
                                        sender_value, sender_balance)
               ELSE [panic |-> FALSE, data |-> data,
                     transfer_score |-> new_clean(sender_value), asked |-> {}]
        rcp == update_recipient_state(view, snd.data, recipient_address,
                                      snd.transfer_score, recipient_balance)
    IN  IF snd.panic
        THEN [panic |-> TRUE, data |-> data, asked |-> snd.asked]
        ELSE [panic |-> FALSE, data |-> rcp.data, asked |-> snd.asked \cup rcp.asked]

\* A transfer whose coinbase value arrives fully dirty.
record_transfer_dirty_coinbase(view, data, sender_address, recipient_address, sender_value, recipient_value, sender_balance, recipient_balance) ==
    LET snd == IF sender_address # {}
               THEN update_sender_state(view, data, CHOOSE s \in sender_address : TRUE,
                                        sender_value, sender_balance)
               ELSE [panic |-> FALSE, data |-> data,
                     transfer_score |-> new_dirty(sender_value), asked |-> {}]
        rebase_fail ==
            /\ ~snd.panic
            /\ recipient_value # {}
            /\ LET v == CHOOSE x \in recipient_value : TRUE
               IN  v > sender_value \/ split_panics(v, snd.transfer_score)
        transfer_score ==
            IF recipient_value # {}
            THEN with_same_uncleanliness_ceil(CHOOSE x \in recipient_value : TRUE,
                                              snd.transfer_score)
            ELSE snd.transfer_score
        rcp == update_recipient_state(view, snd.data, recipient_address,
                                      transfer_score, recipient_balance)
    IN  IF snd.panic \/ rebase_fail
        THEN [panic |-> TRUE, data |-> data, asked |-> snd.asked]
        ELSE [panic |-> FALSE, data |-> rcp.data, asked |-> snd.asked \cup rcp.asked]

\* sender_address and recipient_value are Options: {} is None, {x} is Some(x).
record_transfer(view, data, sender_address, recipient_address, sender_value, recipient_value, sender_balance, recipient_balance) ==
    LET snd == IF sender_address # {}
               THEN update_sender_state(view, data, CHOOSE s \in sender_address : TRUE,
                                        sender_value, sender_balance)
               ELSE [panic |-> FALSE, data |-> data,
                     transfer_score |-> new_clean(sender_value), asked |-> {}]
        rebase_fail ==
            /\ ~snd.panic
            /\ recipient_value # {}
            /\ LET v == CHOOSE x \in recipient_value : TRUE
               IN  v > sender_value \/ split_panics(v, snd.transfer_score)
        transfer_score ==
            IF recipient_value # {}
            THEN with_same_uncleanliness_ceil(CHOOSE x \in recipient_value : TRUE,
                                              snd.transfer_score)
            ELSE snd.transfer_score
        rcp == update_recipient_state(view, snd.data, recipient_address,
                                      transfer_score, recipient_balance)
    IN  IF snd.panic \/ rebase_fail
        THEN [panic |-> TRUE, data |-> data, asked |-> snd.asked]
        ELSE [panic |-> FALSE, data |-> rcp.data, asked |-> snd.asked \cup rcp.asked]

(***************************************************************************)
(* Read queries (score_db.rs).                                             *)
(***************************************************************************)
\* DupReadCursor::set_subkey: the entries stored under (block, address).
set_subkey(view, block_number, address) ==
    {r.score : r \in {x \in view.block_snapshots :
                          x.block = block_number /\ x.address = address}}

\* A lookup that only finds the queried block itself.
exact_block_number(view, address, block_number) == block_number

\* The result of binary_search on the sorted history: the entry itself, else
\* the closest smaller one, else the queried block.
closest_previous_block_number(view, address, block_number) ==
    LET below == {b \in view.address_history[address] : b <= block_number}
    IN  IF below = {} THEN block_number ELSE SetMax(below)

\* `balance` is the chain source's balance of the address at block_number.
get_address_score_by_block_number(view, address, block_number, balance) ==
    LET found == set_subkey(view, closest_previous_block_number(view, address, block_number),
                            address)
    IN  IF found # {}
        THEN LET score == CHOOSE s \in found : TRUE
             IN  IF score.balance # 0 THEN score ELSE new_clean(balance)
        ELSE new_clean(balance)

\* The loop of export_tainted_addresses_until_block_number over the keys k,
\* k + 1, ... of BlockSnapshotTable: every entry of a key up to block_number
\* is inserted into the map, a later one replacing an earlier one.
RECURSIVE insert_until(_, _, _, _)
insert_until(view, address_score, k, block_number) ==
    IF k > block_number \/ \A r \in view.block_snapshots : r.block < k
    THEN address_score
    ELSE LET entries == {r \in view.block_snapshots : r.block = k}
             inserted == [a \in DOMAIN address_score \cup {r.address : r \in entries} |->
                            IF \E r \in entries : r.address = a
                            THEN (CHOOSE r \in entries : r.address = a).score
                            ELSE address_score[a]]
         IN  insert_until(view, inserted, k + 1, block_number)

\* export_tainted_addresses_until_block_number: `rows` are the lines written
\* to the CSV file, `returned` is the map handed back to the caller.
export_tainted_addresses_until_block_number(view, block_number) ==
    LET address_score == insert_until(view, EmptyMap, 0, block_number)
    IN  [rows     |-> {<<a, address_score[a]>> : a \in {x \in DOMAIN address_score :
                                                       is_dirty(address_score[x])}},
         returned |-> address_score]

\* prev_key before the first entry of the cursor.
NoKey == -1

\* The loop of export_historical_amount_of_tainted_addresses from key k on.
\* The entries of one key are taken together: between them the key does not
\* change, so no row is written, and each inserts its address.
RECURSIVE count_from(_, _, _, _, _)
count_from(view, k, prev_key, address_set, rows) ==
    IF \A r \in view.block_snapshots : r.block < k
    THEN [prev_key |-> prev_key, address_set |-> address_set, rows |-> rows]
    ELSE LET entries == {r \in view.block_snapshots : r.block = k}
         IN  IF entries = {}
             THEN count_from(view, k + 1, prev_key, address_set, rows)
             ELSE count_from(view, k + 1, k,
                             address_set \cup {r.address : r \in entries},
                             IF prev_key # NoKey /\ prev_key # k
                             THEN Append(rows, <<prev_key, Cardinality(address_set)>>)
                             ELSE rows)

\* export_historical_amount_of_tainted_addresses: the rows of the CSV file.
export_historical_amount_of_tainted_addresses(view) ==
    LET end == count_from(view, 0, NoKey, {}, <<>>)
    IN  IF end.prev_key # NoKey
        THEN Append(end.rows, <<end.prev_key, Cardinality(end.address_set)>>)
        ELSE end.rows

(***************************************************************************)
(* State.                                                                  *)
(***************************************************************************)
VARIABLES
    pc,                    \* where the driver process is; "off"/"failed" when not running
    current_block_number,  \* main's loop variable; init_new's block_number while bootstrapping
    db,                    \* the committed content of the three tables
    txn,                   \* the write transaction in flight: [open, view]
    cache,                 \* Cache: [data, self_destruct]
    drained,               \* the map drain_data returned to the last flush_cache
    nops,                  \* events counted against MaxOps / ReplayOps
    chain,                 \* the chain source: [fixed, blocks, balances]
    replay,                \* [pos, after, again]: position in the block's events, the
                           \* store after the first commit of each block, and whether
                           \* the last commit was of a block committed before
    split,                 \* SpecSplit only: one call of with_same_uncleanliness_ceil
    call,                  \* SpecTransfer only: one call of record_transfer
    walk                   \* SpecOrder only: the control flow of record_block on one block

vars == <<pc, current_block_number, db, txn, cache, drained, nops, chain, replay, split, call, walk>>

NoTxn == [open |-> FALSE, view |-> EmptyView]
NewCache == [data |-> EmptyMap, self_destruct |-> <<>>]
Blocks == (INI_BLOCK_NUMBER_TC - 1)..END_BLOCK_NUMBER
NoSplit == [balance |-> 0, proportion |-> new(0, 0), done |-> FALSE,
            panic |-> FALSE, score |-> new(0, 0)]

\* What the chain source answers to get_balance(address).block_id(block_number):
\* what it answered before when its responses are fixed; else the balance the
\* store recorded for that block if it holds one; else 0 for a pool at the
\* bootstrap block when the bootstrap has recorded nothing for it (init_tc
\* was told 0); else any.
get_balance(address, block_number) ==
    LET known == set_subkey(db, block_number, address)
    IN  IF chain.fixed /\ <<address, block_number>> \in DOMAIN chain.balances
        THEN {chain.balances[<<address, block_number>>]}
        ELSE IF known # {} THEN {s.balance : s \in known}
        ELSE IF /\ address \in TC_ETH_ADDRESS
                /\ block_number = INI_BLOCK_NUMBER_TC - 1
                /\ (pc # "init_tc" \/ db.block_snapshots # {})
        THEN {0}
        ELSE ChainBalances

\* One event of a block's trace as the pipeline reads it.
Event(kind, from, to, value, fee, code_len) ==
    [kind |-> kind, from |-> from, to |-> to, value |-> value, fee |-> fee,
     code_len |-> code_len]

\* The pipeline reads the next event of the current block (event is {} when it
\* reads none) and is told the balances `told`.  With fixed responses the
\* event is the one read at this position before, if any.
Read(event, cost, told) ==
    IF ~chain.fixed
    THEN /\ nops + cost <= MaxOps
         /\ nops' = nops + cost
         /\ UNCHANGED <<chain, replay>>
    ELSE LET known == chain.blocks[current_block_number]
             heard == [k \in DOMAIN chain.balances \cup DOMAIN told |->
                          IF k \in DOMAIN chain.balances THEN chain.balances[k]
                          ELSE told[k]]
         IN  IF event = {}
             THEN /\ chain' = [chain EXCEPT !.balances = heard]
                  /\ UNCHANGED <<replay, nops>>
             ELSE IF replay.pos < Len(known)
             THEN /\ event = {known[replay.pos + 1]}
                  /\ chain' = [chain EXCEPT !.balances = heard]
                  /\ replay' = [replay EXCEPT !.pos = @ + 1]
                  /\ nops' = nops
             ELSE /\ nops + cost <= ReplayOps
                  /\ nops' = nops + cost
                  /\ chain' = [chain EXCEPT
                                 !.blocks[current_block_number] =
                                     Append(@, CHOOSE e \in event : TRUE),
                                 !.balances = heard]
                  /\ replay' = [replay EXCEPT !.pos = @ + 1]

NoCall == [view |-> EmptyView, data |-> EmptyMap, sender_address |-> {},
           recipient_address |-> "", sender_value |-> 0, recipient_value |-> {},
           sender_balance |-> 0, recipient_balance |-> 0, done |-> FALSE,
           panic |-> FALSE, result |-> EmptyMap]
\* A geth trace result that is TraceResult::Error: no call frame at all.
ErrorTrace == [success |-> FALSE, n |-> 0, parent |-> <<>>, error |-> <<>>,
               value |-> <<>>]
NoWalk == [phase |-> "idle", txs |-> 0, rewards |-> 0, i |-> 0, paid |-> 0,
           trace |-> ErrorTrace, stack |-> <<>>, log |-> <<>>]
\* The variables of the other specifications stay as they are.
Idle == call = NoCall /\ walk = NoWalk

InitWith(fixed, calls) ==
    /\ pc = "off"
    /\ current_block_number = 0
    /\ db = EmptyView
    /\ txn = NoTxn
    /\ cache = NewCache
    /\ drained = EmptyMap
    /\ nops = 0
    /\ chain = [fixed |-> fixed, blocks |-> [b \in Blocks |-> <<>>],
                balances |-> EmptyMap]
    /\ replay = [pos |-> 0, after |-> EmptyMap, again |-> FALSE]
    /\ split \in calls

Init == InitWith(FALSE, {NoSplit}) /\ Idle

(***************************************************************************)
(* Driver (main.rs) and bootstrap (Blockchain::init_new).                  *)
(***************************************************************************)
\* An abandoned write transaction leaves the tables as they were.
Stopped_writing(status) ==
    /\ pc' = status
    /\ current_block_number' = 0
    /\ txn' = NoTxn
    /\ cache' = NewCache
    /\ drained' = EmptyMap
    /\ db' = IF txn.open THEN txn.view ELSE db

\* The process is gone: the write transaction and the cache go with it.
Stopped(status) ==
    /\ pc' = status
    /\ current_block_number' = 0
    /\ txn' = NoTxn
    /\ cache' = NewCache
    /\ drained' = EmptyMap
    /\ db' = db

\* Resuming at the first block of the range.
resume_from_first(init_block_number) == INI_BLOCK_NUMBER_TC

\* Resuming at the last block the store holds.
resume_at_last(init_block_number) == init_block_number

\* Resuming one block further than the block after the last one stored.
resume_skipping(init_block_number) == init_block_number + 2

\* The block main continues at when it resumes.
resume_block_number(init_block_number) == init_block_number + 1

\* main up to the loop, started with or without --reset: resume, or init_new
\* up to its first await.
StartWith(is_reset) ==
    /\ pc \in {"off", "failed"}
    /\ LET init_block_number == get_last_block_number(db)
       IN  IF is_reset \/ init_block_number = {}
           THEN /\ pc' = "init_tc"
                /\ current_block_number' = INI_BLOCK_NUMBER_TC - 1
                /\ txn' = [open |-> TRUE, view |-> clear(db)]
           ELSE /\ pc' = "loop"
                /\ current_block_number' =
                      resume_block_number(CHOOSE b \in init_block_number : TRUE)
                /\ txn' = NoTxn
    /\ cache' = NewCache
    /\ replay' = [replay EXCEPT !.pos = 0]
    /\ UNCHANGED <<db, drained, nops, chain, split, call, walk>>

Start == \E is_reset \in BOOLEAN : StartWith(is_reset)

\* One iteration of the loop of init_tc.
InitTc ==
    /\ pc = "init_tc"
    /\ TC_ETH_ADDRESS \ DOMAIN cache.data # {}
    /\ LET address == CHOOSE a \in TC_ETH_ADDRESS \ DOMAIN cache.data : TRUE
       IN  \E balance \in get_balance(address, current_block_number) :
             /\ cache' = [cache EXCEPT !.data = Put(@, address, new_dirty(balance))]
             /\ Read({}, 0, [k \in {<<address, current_block_number>>} |-> balance])
    /\ UNCHANGED <<pc, current_block_number, db, txn, drained, split, call, walk>>

\* drain_data: the map handed to flush_cache.
drain_data(data) == data

\* flush_cache, in init_new and in record_block.
Flush(next) ==
    /\ drained' = drain_data(cache.data)
    /\ cache' = [cache EXCEPT !.data = EmptyMap]
    /\ txn' = [txn EXCEPT !.view = flush_cache(@, drain_data(cache.data),
                                               current_block_number)]
    /\ pc' = next
    /\ UNCHANGED <<current_block_number, db, split, call, walk>>

\* txn.commit(), in init_new and in record_block.
Commit(next_block_number, n) ==
    /\ db' = txn.view
    /\ txn' = NoTxn
    /\ current_block_number' = next_block_number
    /\ pc' = "loop"
    /\ nops' = n
    /\ replay' = IF ~chain.fixed THEN replay
                 ELSE IF current_block_number \in DOMAIN replay.after
                 THEN [replay EXCEPT !.again = TRUE]
                 ELSE [replay EXCEPT !.again = FALSE,
                                     !.after = Put(@, current_block_number, txn.view)]
    /\ UNCHANGED <<cache, drained, chain, split, call, walk>>

InitFlush ==
    /\ pc = "init_tc"
    /\ TC_ETH_ADDRESS \subseteq DOMAIN cache.data
    /\ Flush("init_flushed")
    /\ UNCHANGED <<nops, chain, replay>>

InitCommit ==
    /\ pc = "init_flushed"
    /\ Commit(INI_BLOCK_NUMBER_TC, IF chain.fixed THEN nops ELSE 0)

\* The loop condition fails: main returns Ok.
Exit ==
    /\ pc = "loop"
    /\ current_block_number > END_BLOCK_NUMBER
    /\ Stopped("off")
    /\ UNCHANGED <<nops, chain, replay, split, call, walk>>

\* An error inside a block that the loop swallows: it goes on with the next
\* block.
Crash_skipping ==
    /\ pc \in {"tx", "frames", "reward", "flushed"}
    /\ pc' = "loop"
    /\ current_block_number' = current_block_number + 1
    /\ txn' = NoTxn
    /\ cache' = NewCache
    /\ drained' = EmptyMap
    /\ db' = db
    /\ UNCHANGED <<nops, chain, replay, split, call, walk>>

\* A chain-source error at an await, or the operator ending the process.
Crash ==
    /\ pc \notin {"off", "failed"}
    /\ Stopped("failed")
    /\ UNCHANGED <<nops, chain, replay, split, call, walk>>

(***************************************************************************)
(* Block pipeline (Blockchain::record_block).  The trace of a block is     *)
(* read event by event, in the order the traversal visits it.              *)
(***************************************************************************)
\* get_block_by_number, then record_block up to the first transaction.
BeginBlock ==
    /\ pc = "loop"
    /\ current_block_number <= END_BLOCK_NUMBER
    /\ txn' = [open |-> TRUE, view |-> db]
    /\ pc' = "tx"
    /\ drained' = EmptyMap
    /\ replay' = [replay EXCEPT !.pos = 0]
    /\ UNCHANGED <<current_block_number, db, cache, nops, chain, split, call, walk>>

\* The chain source's answers one record_transfer call may need.
Answers(address, needed) ==
    IF needed THEN get_balance(address, current_block_number - 1) ELSE {0}

\* One record_transfer call and what follows from its outcome; self_destruct
\* is the self-destruct list as the frame leaves it.
Transfer(event, sender_address, recipient_address, sender_value, recipient_value, self_destruct, next) ==
    LET s == IF sender_address = {} THEN recipient_address
             ELSE CHOOSE x \in sender_address : TRUE
        ask_sender == sender_address # {} /\ get_score(txn.view, cache.data, s) = {}
        ask_recipient == /\ get_score(txn.view, cache.data, recipient_address) = {}
                         /\ recipient_address \notin sender_address
    IN  \E sender_balance \in Answers(s, ask_sender),
           recipient_balance \in Answers(recipient_address, ask_recipient) :
          LET res == record_transfer(txn.view, cache.data, sender_address,
                                     recipient_address, sender_value, recipient_value,
                                     sender_balance, recipient_balance)
              told == [k \in {<<a, current_block_number - 1>> : a \in res.asked} |->
                          IF k[1] = s /\ ask_sender THEN sender_balance
                          ELSE recipient_balance]
          IN  /\ Read({event}, 1, told)
              /\ IF res.panic
                 THEN Stopped("failed")
                 ELSE /\ cache' = [data |-> res.data, self_destruct |-> self_destruct]
                      /\ pc' = next
                      /\ UNCHANGED <<current_block_number, db, txn, drained>>
              /\ UNCHANGED <<split, call, walk>>

\* record_transaction, trace Success: the fee transfer to the miner.
TxFee ==
    /\ pc = "tx"
    /\ \E tx_sender \in Addr, fee \in Fees :
         Transfer(Event("fee", tx_sender, block_miner, fee[1], fee[2], 0),
                  {tx_sender}, block_miner, fee[1], {fee[2]}, cache.self_destruct,
                  "frames")

\* A drain that empties the list and leaves the scores as they are.
drain_self_destruct_keeping(data, self_destruct) == data

\* The loop over drain_self_destruct at the end of record_transaction.
drain_self_destruct(data, self_destruct) ==
    [a \in DOMAIN data \cup {self_destruct[i] : i \in DOMAIN self_destruct} |->
        IF \E i \in DOMAIN self_destruct : self_destruct[i] = a THEN new(0, 0)
        ELSE data[a]]

\* A trace Error that is propagated like any other error.
TxError_fatal ==
    /\ pc = "tx"
    /\ Read({Event("error", "", "", 0, 0, 0)}, 1, EmptyMap)
    /\ Stopped("failed")
    /\ UNCHANGED <<split, call, walk>>

\* record_transaction, trace Error: nothing but the drain.
TxError ==
    /\ pc = "tx"
    /\ Read({Event("error", "", "", 0, 0, 0)}, 1, EmptyMap)
    /\ cache' = [data |-> drain_self_destruct(cache.data, cache.self_destruct),
                 self_destruct |-> <<>>]
    /\ UNCHANGED <<pc, current_block_number, db, txn, drained, split, call, walk>>

\* process_frame on a frame that is not SELFDESTRUCT and carries a value.
Frame ==
    /\ pc = "frames"
    /\ \E from \in Addr, to \in Addr, value \in Values :
         Transfer(Event("call", from, to, value, 0, 0),
                  {from}, to, value, {}, cache.self_destruct, "frames")

\* A SELFDESTRUCT frame that is marked and whose value is not transferred.
SelfDestruct_unrecorded ==
    /\ pc = "frames"
    /\ \E from \in Addr, code_len \in {0, 1}, to \in Addr \cup {""}, value \in Values :
         /\ Read({Event("selfdestruct", from, to, IF to = "" THEN 0 ELSE value, 0, code_len)}, 1, EmptyMap)
         /\ cache' = [cache EXCEPT !.self_destruct =
                         IF code_len = 0 THEN Append(@, from) ELSE @]
         /\ UNCHANGED <<pc, current_block_number, db, txn, drained, split, call, walk>>

\* process_frame on a SELFDESTRUCT frame: get_code_at, then the transfer if
\* the frame carries a value.
SelfDestruct ==
    /\ pc = "frames"
    /\ \E from \in Addr, code_len \in {0, 1} :
         LET marked == IF code_len = 0 THEN Append(cache.self_destruct, from)
                       ELSE cache.self_destruct
         IN  \/ /\ Read({Event("selfdestruct", from, "", 0, 0, code_len)}, 1, EmptyMap)
                /\ cache' = [cache EXCEPT !.self_destruct = marked]
                /\ UNCHANGED <<pc, current_block_number, db, txn, drained, split, call, walk>>
             \/ \E to \in Addr, value \in Values :
                  Transfer(Event("selfdestruct", from, to, value, 0, code_len),
                           {from}, to, value, {}, marked, "frames")

\* The end of record_transaction after a Success trace.
EndTx ==
    /\ pc = "frames"
    /\ Read({Event("end_tx", "", "", 0, 0, 0)}, 0, EmptyMap)
    /\ cache' = [data |-> drain_self_destruct(cache.data, cache.self_destruct),
                 self_destruct |-> <<>>]
    /\ pc' = "tx"
    /\ UNCHANGED <<current_block_number, db, txn, drained, split, call, walk>>

\* record_reward: one coinbase transfer (block reward, uncle reward, withdrawal).
Reward ==
    /\ pc \in {"tx", "reward"}
    /\ \E recipient \in Addr, value \in Values :
         Transfer(Event("reward", "", recipient, value, 0, 0),
                  {}, recipient, value, {}, cache.self_destruct, "reward")

BlockFlush ==
    /\ pc \in {"tx", "reward"}
    /\ Read({Event("end_block", "", "", 0, 0, 0)}, 0, EmptyMap)
    /\ Flush("flushed")

BlockCommit ==
    /\ pc = "flushed"
    /\ Commit(current_block_number + 1, nops)

Next ==
    \/ Start \/ InitTc \/ InitFlush \/ InitCommit \/ Exit \/ Crash
    \/ BeginBlock \/ TxFee \/ TxError \/ Frame \/ SelfDestruct \/ EndTx
    \/ Reward \/ BlockFlush \/ BlockCommit

Spec == Init /\ [][Next]_vars

(***************************************************************************)
(* The Blockchain instance under a caller that keeps it after an error.    *)
(* record_block is a public method: when the chain source fails at an      *)
(* await the error is returned with `?`, the write transaction is dropped  *)
(* with the stack frame, and the instance, its cache included, stays with  *)
(* the caller, who may call record_block again.                            *)
(***************************************************************************)
\* record_block returns Err from an await inside the block.
ReturnErr ==
    /\ pc \in {"tx", "frames", "reward"}
    /\ pc' = "erred"
    /\ txn' = NoTxn
    /\ UNCHANGED <<current_block_number, db, cache, drained, nops, chain, replay,
                   split, call, walk>>

\* The caller calls record_block for the same block on the same instance.
RetryBlock ==
    /\ pc = "erred"
    /\ pc' = "loop"
    /\ UNCHANGED <<current_block_number, db, txn, cache, drained, nops, chain,
                   replay, split, call, walk>>

NextRetry ==
    \/ Start \/ InitTc \/ InitFlush \/ InitCommit \/ Exit \/ Crash
    \/ BeginBlock \/ TxFee \/ TxError \/ Frame \/ SelfDestruct \/ EndTx
    \/ Reward \/ BlockFlush \/ BlockCommit
    \/ ReturnErr \/ RetryBlock

SpecRetry == Init /\ [][NextRetry]_vars

(***************************************************************************)
(* The pipeline on traces and blocks that break its assertions, with a     *)
(* chain source that never fails: every way to "failed" is then a panic.   *)
(***************************************************************************)
\* A frame without `to` that is passed over instead of stopping the block.
FrameWithoutTo_skipped ==
    /\ pc = "frames"
    /\ \E from \in Addr, value \in Values :
         Read({Event("call", from, "", value, 0, 0)}, 1, EmptyMap)
    /\ UNCHANGED <<pc, current_block_number, db, txn, cache, drained, split, call, walk>>

\* process_frame on a frame that carries a value and has no `to`: the expect
\* panics.
FrameWithoutTo ==
    /\ pc = "frames"
    /\ \E from \in Addr, value \in Values :
         Read({Event("call", from, "", value, 0, 0)}, 1, EmptyMap)
    /\ Stopped("failed")
    /\ UNCHANGED <<split, call, walk>>

\* record_block on a block whose header has no number: the write transaction
\* is open when the expect panics.
BlockWithoutNumber ==
    /\ pc = "loop"
    /\ current_block_number <= END_BLOCK_NUMBER
    /\ Stopped("failed")
    /\ UNCHANGED <<nops, chain, replay, split, call, walk>>

\* record_transaction on a transaction whose fee to the miner exceeds the fee
\* its sender pays: the assertion of record_transfer fails (or an earlier one).
FeeAboveTotal ==
    /\ pc = "tx"
    /\ \E tx_sender \in Addr :
         Transfer(Event("fee", tx_sender, block_miner, 1, 2, 0),
                  {tx_sender}, block_miner, 1, {2}, cache.self_destruct, "frames")

NextFaults ==
    \/ Start \/ InitTc \/ InitFlush \/ InitCommit \/ Exit
    \/ BeginBlock \/ TxFee \/ TxError \/ Frame \/ SelfDestruct \/ EndTx
    \/ Reward \/ BlockFlush \/ BlockCommit
    \/ FrameWithoutTo \/ BlockWithoutNumber \/ FeeAboveTotal

SpecFaults == Init /\ [][NextFaults]_vars

\* The same program with a chain source whose responses are fixed.
InitReplay == InitWith(TRUE, {NoSplit}) /\ Idle
SpecReplay == InitReplay /\ [][Next]_vars

(***************************************************************************)
(* The pure split on its own: one call on every input within MaxSplit.     *)
(***************************************************************************)
\* The arguments: any balance, and any Score as the proportion.
SplitCalls ==
    {[balance |-> v, proportion |-> new(b, d), done |-> FALSE, panic |-> FALSE,
      score |-> new(0, 0)] : v \in 0..MaxSplit, b \in 0..MaxSplit, d \in 0..MaxSplit}

InitSplit ==
    /\ InitWith(FALSE, {c \in SplitCalls :
                           ~new_panics(c.proportion.balance, c.proportion.dirty_amount)})
    /\ Idle

\* The call: it panics, or it returns a Score.
Split ==
    /\ ~split.done
    /\ split' = [split EXCEPT
                   !.done = TRUE,
                   !.panic = split_panics(split.balance, split.proportion),
                   !.score = IF split_panics(split.balance, split.proportion)
                             THEN new(0, 0)
                             ELSE with_same_uncleanliness_ceil(split.balance,
                                                               split.proportion)]
    /\ UNCHANGED <<pc, current_block_number, db, txn, cache, drained, nops, chain,
                   replay, call, walk>>

NextSplit == Split

SpecSplit == InitSplit /\ [][NextSplit]_vars

(***************************************************************************)
(* One call of ScoreDb::record_transfer on a drawn cache, AddressScoreTable *)
(* and chain.  The sender and the recipient each hold a score in the cache, *)
(* in the table, in both (the cache is read first), or nowhere, and then    *)
(* the chain is asked for the balance; every other address holds Bystander  *)
(* in the cache.                                                            *)
(***************************************************************************)
MaxAmount == 3
Bystander == new(2, 1)
Shadowed == new_dirty(1)
TransferScores ==
    {s \in [balance : 0..MaxAmount, dirty_amount : 0..MaxAmount] :
        ~new_panics(s.balance, s.dirty_amount)}
Priors ==
    {p \in [place : {"cache", "table", "both", "chain"}, score : TransferScores] :
        /\ p.place = "table" => is_dirty(p.score)
        /\ p.place = "chain" => ~is_dirty(p.score)}

TransferCall(sender_address, recipient_address, sender_prior, recipient_prior, sender_value, recipient_value) ==
    LET involved == sender_address \cup {recipient_address}
        prior(a) == IF a \in sender_address THEN sender_prior ELSE recipient_prior
        cached == {a \in involved : prior(a).place \in {"cache", "both"}}
        stored == {a \in involved : prior(a).place \in {"table", "both"}}
        asked(a) == IF prior(a).place = "chain" THEN prior(a).score.balance ELSE 0
    IN  [view |-> [EmptyView EXCEPT !.address_score =
                       [a \in stored |-> IF prior(a).place = "both" THEN Shadowed
                                         ELSE prior(a).score]],
         data |-> [a \in cached \cup (Addr \ involved) |->
                       IF a \in involved THEN prior(a).score ELSE Bystander],
         sender_address |-> sender_address,
         recipient_address |-> recipient_address,
         sender_value |-> sender_value,
         recipient_value |-> recipient_value,
         sender_balance |-> IF sender_address = {} THEN 0
                            ELSE asked(CHOOSE a \in sender_address : TRUE),
         recipient_balance |-> asked(recipient_address),
         done |-> FALSE, panic |-> FALSE, result |-> EmptyMap]

InitTransfer ==
    /\ InitWith(FALSE, {NoSplit})
    /\ walk = NoWalk
    /\ \E sender_address \in {{}} \cup {{a} : a \in Addr}, recipient_address \in Addr :
         \E sender_prior \in Priors, recipient_prior \in Priors :
           \E sender_value \in 0..MaxAmount :
             \E recipient_value \in {{}} \cup {{v} : v \in 0..MaxAmount} :
               call = TransferCall(sender_address, recipient_address, sender_prior,
                                   recipient_prior, sender_value, recipient_value)

RecordTransfer ==
    /\ ~call.done
    /\ LET r == record_transfer(call.view, call.data, call.sender_address,
                                call.recipient_address, call.sender_value,
                                call.recipient_value, call.sender_balance,
                                call.recipient_balance)
       IN  call' = [call EXCEPT !.done = TRUE, !.panic = r.panic, !.result = r.data]
    /\ UNCHANGED <<pc, current_block_number, db, txn, cache, drained, nops, chain,
                   replay, split, walk>>

NextTransfer == RecordTransfer

SpecTransfer == InitTransfer /\ [][NextTransfer]_vars

(***************************************************************************)
(* The control flow of record_block on one block: the loop over the        *)
(* transactions, record_transaction, depth_first_traversal with its stack  *)
(* of iterators, the drain, record_reward and flush_cache.  walk.log is    *)
(* the sequence of calls that reach the recorder, the cache and the flush. *)
(* A call trace has the frames 1..n, frame 1 the root; parent[j] < j is    *)
(* the frame whose calls hold frame j, in ascending order of j; error[j]   *)
(* says frame j failed; value[j] says process_frame records a transfer for *)
(* it (a value that is not zero, a call type that can carry one).          *)
(***************************************************************************)
MaxTxs == 2
MaxFrames == 4
MaxRewards == 2

Traces ==
    {ErrorTrace} \cup
    UNION {[success : {TRUE}, n : {n},
            parent : {p \in [1..n -> 0..(n - 1)] :
                         p[1] = 0 /\ \A j \in 2..n : p[j] >= 1 /\ p[j] < j},
            error : [1..n -> BOOLEAN],
            value : [1..n -> BOOLEAN]] : n \in 1..MaxFrames}

\* frame.calls: the frames called by the frame, left to right.
calls(trace, frame) ==
    SelectSeq([j \in 1..trace.n |-> j], LAMBDA j : trace.parent[j] = frame)

Entry(kind, tx, frame) == [kind |-> kind, tx |-> tx, frame |-> frame]

\* process_frame: one record_transfer call if the frame carries a value.
process_frame(log, tx, trace, frame) ==
    IF trace.value[frame] THEN Append(log, Entry("transfer", tx, frame)) ELSE log

\* An iteration that takes the oldest iterator of the stack.
first_mut(stack) == 1

\* stack.last_mut(): the position of the iterator the loop advances.
last_mut(stack) == Len(stack)

\* The walk touches nothing but its own position and log.
OnlyWalk ==
    UNCHANGED <<pc, current_block_number, db, txn, cache, drained, nops, chain,
                replay, split, call>>

InitOrder ==
    /\ InitWith(FALSE, {NoSplit})
    /\ call = NoCall
    /\ \E txs \in 0..MaxTxs, rewards \in 0..MaxRewards :
         walk = [NoWalk EXCEPT !.phase = "txs", !.txs = txs, !.rewards = rewards]

\* record_block's loop enters record_transaction: the fee transfer of a
\* Success trace, nothing for an Error trace.
RecordTransaction ==
    /\ walk.phase = "txs"
    /\ walk.i < walk.txs
    /\ \E trace \in Traces :
         walk' = [walk EXCEPT
                    !.i = @ + 1,
                    !.trace = trace,
                    !.stack = <<>>,
                    !.phase = IF trace.success THEN "root" ELSE "drain",
                    !.log = IF trace.success
                            THEN Append(@, Entry("fee", walk.i + 1, 0)) ELSE @]
    /\ OnlyWalk

\* depth_first_traversal before its loop.
TraverseRoot ==
    /\ walk.phase = "root"
    /\ walk' = IF walk.trace.error[1]
               THEN [walk EXCEPT !.phase = "dfs"]
               ELSE [walk EXCEPT
                       !.phase = "dfs",
                       !.stack = Append(@, calls(walk.trace, 1)),
                       !.log = process_frame(@, walk.i, walk.trace, 1)]
    /\ OnlyWalk

\* One iteration of the loop of depth_first_traversal.
TraverseStep ==
    /\ walk.phase = "dfs"
    /\ walk.stack # <<>>
    /\ LET k == last_mut(walk.stack)
           top_iter == walk.stack[k]
       IN  IF top_iter # <<>>
           THEN LET next_frame == Head(top_iter)
                    advanced == [walk.stack EXCEPT ![k] = Tail(top_iter)]
                IN  IF walk.trace.error[next_frame]
                    THEN walk' = [walk EXCEPT !.stack = advanced]
                    ELSE walk' = [walk EXCEPT
                                    !.stack = Append(advanced,
                                                     calls(walk.trace, next_frame)),
                                    !.log = process_frame(@, walk.i, walk.trace,
                                                          next_frame)]
           ELSE walk' = [walk EXCEPT
                           !.stack = SubSeq(walk.stack, 1, Len(walk.stack) - 1)]
    /\ OnlyWalk

\* The end of record_transaction: the self-destruct list is drained.
Drain ==
    /\ \/ walk.phase = "drain"
       \/ walk.phase = "dfs" /\ walk.stack = <<>>
    /\ walk' = [walk EXCEPT !.phase = "txs",
                            !.log = Append(@, Entry("wipe", walk.i, 0))]
    /\ OnlyWalk

\* record_reward: one coinbase transfer after the loop over the transactions.
RecordReward ==
    /\ walk.phase \in {"txs", "rewards"}
    /\ walk.i = walk.txs
    /\ walk.paid < walk.rewards
    /\ walk' = [walk EXCEPT !.phase = "rewards", !.paid = @ + 1,
                            !.log = Append(@, Entry("reward", 0, walk.paid + 1))]
    /\ OnlyWalk

\* flush_cache after record_reward has returned.
FlushWalk ==
    /\ walk.phase \in {"txs", "rewards"}
    /\ walk.i = walk.txs
    /\ walk.paid = walk.rewards
    /\ walk' = [walk EXCEPT !.phase = "done",
                            !.log = Append(@, Entry("flush", 0, 0))]
    /\ OnlyWalk

NextOrder ==
    \/ RecordTransaction \/ TraverseRoot \/ TraverseStep \/ Drain
    \/ RecordReward \/ FlushWalk

SpecOrder == InitOrder /\ [][NextOrder]_vars

(***************************************************************************)
(* SpecFrames: depth_first_traversal and process_frame on the call trace   *)
(* of one transaction whose frames carry their error, call type, value and *)
(* the code length the chain source reports for frame.from.  Every frame   *)
(* has a `to` address.  walk.log holds the record_transfer calls and       *)
(* walk.self_destruct the frames whose `from` insert_self_destruct took.   *)
(***************************************************************************)
MaxCalls == 3
CallTypes == {"CALL", "DELEGATECALL", "CALLCODE", "STATICCALL", "SELFDESTRUCT"}
CallFrame ==
    {f \in [error : BOOLEAN, typ : CallTypes, value : 0..1, code_len : 0..1] :
        f.typ # "SELFDESTRUCT" => f.code_len = 0}
\* The call traces of n frames.
CallTraces(n) ==
    [n : {n},
     parent : {p \in [1..n -> 0..(n - 1)] :
                  p[1] = 0 /\ \A j \in 2..n : p[j] >= 1 /\ p[j] < j},
     frame : [1..n -> CallFrame]]

\* A process_frame that does not look at the call type.
process_any_frame(out, trace, j) == [self_destruct |-> out.self_destruct, log |-> IF trace.frame[j].value # 0 THEN Append(out.log, Entry("transfer", 1, j)) ELSE out.log]

\* process_frame on frame j of the trace: `out` holds the self-destruct list
\* of the cache and the record_transfer calls made so far.
process_call_frame(out, trace, j) ==
    LET frame == trace.frame[j]
    IN  IF frame.typ \notin {"DELEGATECALL", "CALLCODE", "STATICCALL"}
        THEN [self_destruct |->
                  IF frame.typ = "SELFDESTRUCT" /\ frame.code_len = 0
                  THEN Append(out.self_destruct, j) ELSE out.self_destruct,
              log |-> IF frame.value # 0
                      THEN Append(out.log, Entry("transfer", 1, j)) ELSE out.log]
        ELSE out

InitFrames ==
    /\ InitWith(FALSE, {NoSplit})
    /\ call = NoCall
    /\ \E n \in 1..MaxCalls : \E trace \in CallTraces(n) :
         walk = [phase |-> "fee", trace |-> trace, stack |-> <<>>, log |-> <<>>,
                 self_destruct |-> <<>>, wiped |-> <<>>]

\* record_transaction on a Success trace: the fee transfer comes first.
RecordFee ==
    /\ walk.phase = "fee"
    /\ walk' = [walk EXCEPT !.phase = "root", !.log = Append(@, Entry("fee", 1, 0))]
    /\ OnlyWalk

\* depth_first_traversal before its loop.
VisitRoot ==
    /\ walk.phase = "root"
    /\ walk' = IF walk.trace.frame[1].error
               THEN [walk EXCEPT !.phase = "dfs"]
               ELSE LET out == process_call_frame(walk, walk.trace, 1)
                    IN  [walk EXCEPT
                           !.phase = "dfs",
                           !.stack = Append(@, calls(walk.trace, 1)),
                           !.log = out.log,
                           !.self_destruct = out.self_destruct]
    /\ OnlyWalk

\* One iteration of the loop of depth_first_traversal.
VisitStep ==
    /\ walk.phase = "dfs"
    /\ walk.stack # <<>>
    /\ LET k == last_mut(walk.stack)
           top_iter == walk.stack[k]
       IN  IF top_iter # <<>>
           THEN LET next_frame == Head(top_iter)
                    advanced == [walk.stack EXCEPT ![k] = Tail(top_iter)]
                    out == process_call_frame(walk, walk.trace, next_frame)
                IN  IF walk.trace.frame[next_frame].error
                    THEN walk' = [walk EXCEPT !.stack = advanced]
                    ELSE walk' = [walk EXCEPT
                                    !.stack = Append(advanced,
                                                     calls(walk.trace, next_frame)),
                                    !.log = out.log,
                                    !.self_destruct = out.self_destruct]
           ELSE walk' = [walk EXCEPT
                           !.stack = SubSeq(walk.stack, 1, Len(walk.stack) - 1)]
    /\ OnlyWalk

\* The end of record_transaction: drain_self_destruct hands the list over to
\* the loop that writes the zero scores.
DrainFrames ==
    /\ walk.phase = "dfs"
    /\ walk.stack = <<>>
    /\ walk' = [walk EXCEPT !.phase = "done", !.wiped = walk.self_destruct,
                            !.self_destruct = <<>>]
    /\ OnlyWalk

NextFrames == RecordFee \/ VisitRoot \/ VisitStep \/ DrainFrames

SpecFrames == InitFrames /\ [][NextFrames]_vars

(***************************************************************************)
(* SpecPrior: the record_transfer calls of one block and the drain of the  *)
(* self-destruct list between them, on a store drawn in Init, with the     *)
(* number of get_balance requests per address.  walk.chain is the balance  *)
(* of every address at block_number - 1, walk.log the calls made so far.   *)
(***************************************************************************)
MaxTransfers == 2
\* The score AddressScoreTable holds for an address it holds: a dirty one.
StoredScore(address) ==
    IF address \in TC_ETH_ADDRESS THEN new_dirty(2) ELSE new(2, 1)

InitPrior ==
    /\ InitWith(FALSE, {NoSplit})
    /\ call = NoCall
    /\ \E stored \in SUBSET Addr, balances \in [Addr -> ChainBalances] :
         walk = [phase |-> "block",
                 view |-> [EmptyView EXCEPT
                             !.address_score = [a \in stored |-> StoredScore(a)]],
                 chain |-> balances,
                 data |-> EmptyMap,
                 asks |-> [a \in Addr |-> 0],
                 log |-> <<>>,
                 wiped |-> FALSE]

\* One record_transfer call without a recipient value: a frame (a sender)
\* or a coinbase transfer (none).
TransferPrior ==
    /\ walk.phase = "block"
    /\ Len(walk.log) < MaxTransfers
    /\ \E sender_address \in {{}} \cup {{a} : a \in Addr}, recipient_address \in Addr, value \in Values :
         LET s == IF sender_address = {} THEN recipient_address
                  ELSE CHOOSE x \in sender_address : TRUE
             res == record_transfer(walk.view, walk.data, sender_address,
                                    recipient_address, value, {},
                                    walk.chain[s], walk.chain[recipient_address])
         IN  walk' = [walk EXCEPT
                        !.phase = IF res.panic THEN "failed" ELSE "block",
                        !.data = res.data,
                        !.asks = [a \in Addr |-> IF a \in res.asked THEN @[a] + 1 ELSE @[a]],
                        !.log = Append(@, [sender_address |-> sender_address,
                                           recipient_address |-> recipient_address,
                                           value |-> value])]
    /\ OnlyWalk

\* The end of a transaction in which one address self-destructed.
WipePrior ==
    /\ walk.phase = "block"
    /\ ~walk.wiped
    /\ walk.log # <<>>
    /\ \E address \in Addr :
         walk' = [walk EXCEPT !.wiped = TRUE,
                              !.data = drain_self_destruct(@, <<address>>)]
    /\ OnlyWalk

NextPrior == TransferPrior \/ WipePrior

SpecPrior == InitPrior /\ [][NextPrior]_vars

(***************************************************************************)
(* SpecReward: record_reward on one block.  The block carries its number,  *)
(* its uncles (miner and number of the uncle header, NoNumber when the     *)
(* header has none) and its withdrawals (NoWithdrawals when the field is   *)
(* absent).  walk.log holds the record_transfer calls.  Amounts of the     *)
(* proof-of-work branch are in units of 1/32 ether, on which every         *)
(* division of the code is exact as it is on 2 * 10^18 wei; withdrawal     *)
(* amounts are in wei.                                                     *)
(***************************************************************************)
MaxUncles == 2
MaxWithdrawals == 2
\* Block that switched to POS, scaled down into the block range.
POS_BLOCK_NUMBER == 3
\* parse_units("2", "ether"), in units of 1/32 ether.
static_block_reward == 64
\* An uncle header without a number; the withdrawals field when absent.
NoNumber == -1
NoWithdrawals == <<[address |-> "", amount |-> 0]>>
\* Withdrawal amounts in gwei.
GweiAmounts == {1, 2}

SeqsUpTo(S, n) == UNION {[1..k -> S] : k \in 0..n}

uncle_inclusion_reward(uncle_count) == (static_block_reward \div 32) * uncle_count

\* An uncle reward that does not depend on the uncle's depth.
uncle_reward_flat(uncle_number, block_number) == static_block_reward

uncle_reward(uncle_number, block_number) ==
    ((uncle_number + 8 - block_number) * static_block_reward) \div 8

\* parse_units(amount, "gwei"): the amount in wei.
gwei_to_wei(amount) == amount * 1000000000

\* One record_transfer call of record_reward: no sender, no recipient value.
Coinbase(kind, idx, recipient_address, value) ==
    [kind |-> kind, idx |-> idx, sender_address |-> {},
     recipient_address |-> recipient_address, sender_value |-> value,
     recipient_value |-> {}]

InitReward ==
    /\ InitWith(FALSE, {NoSplit})
    /\ call = NoCall
    /\ \E number \in INI_BLOCK_NUMBER_TC..END_BLOCK_NUMBER :
       \E uncles \in SeqsUpTo([miner : Addr,
                               number : {NoNumber} \cup ((number - 2)..(number - 1) \cap Nat)],
                              MaxUncles) :
       \E withdrawals \in {NoWithdrawals} \cup
                          SeqsUpTo([address : Addr, amount : GweiAmounts], MaxWithdrawals) :
         walk = [phase |-> "start",
                 block |-> [number |-> number, uncles |-> uncles,
                            withdrawals |-> withdrawals],
                 idx |-> 0, log |-> <<>>]

\* Proof of work: the block miner's reward.
MinerReward ==
    /\ walk.phase = "start"
    /\ walk.block.number < POS_BLOCK_NUMBER
    /\ walk' = [walk EXCEPT
                  !.phase = "uncles",
                  !.log = Append(@, Coinbase("block", 0, block_miner,
                                   static_block_reward
                                     + uncle_inclusion_reward(Len(walk.block.uncles))))]
    /\ OnlyWalk

\* Proof of work: one iteration of the loop over the uncles.
UncleReward ==
    /\ walk.phase = "uncles"
    /\ walk.idx < Len(walk.block.uncles)
    /\ LET uncle_block == walk.block.uncles[walk.idx + 1]
       IN  walk' = [walk EXCEPT
                      !.idx = @ + 1,
                      !.log = IF uncle_block.number # NoNumber
                              THEN Append(@, Coinbase("uncle", walk.idx + 1,
                                               uncle_block.miner,
                                               uncle_reward(uncle_block.number,
                                                            walk.block.number)))
                              ELSE @]
    /\ OnlyWalk

\* Proof of stake: one iteration of the loop over the beacon withdrawals.
Withdrawal ==
    /\ walk.phase \in {"start", "withdrawals"}
    /\ walk.block.number >= POS_BLOCK_NUMBER
    /\ walk.block.withdrawals # NoWithdrawals
    /\ walk.idx < Len(walk.block.withdrawals)
    /\ LET withdrawal == walk.block.withdrawals[walk.idx + 1]
       IN  walk' = [walk EXCEPT
                      !.phase = "withdrawals",
                      !.idx = @ + 1,
                      !.log = Append(@, Coinbase("withdrawal", walk.idx + 1,
                                                 withdrawal.address,
                                                 gwei_to_wei(withdrawal.amount)))]
    /\ OnlyWalk

\* record_reward returns Ok.
RewardReturn ==
    /\ \/ walk.phase = "uncles" /\ walk.idx = Len(walk.block.uncles)
       \/ /\ walk.phase \in {"start", "withdrawals"}
          /\ walk.block.number >= POS_BLOCK_NUMBER
          /\ \/ walk.block.withdrawals = NoWithdrawals
             \/ walk.idx = Len(walk.block.withdrawals)
    /\ walk' = [walk EXCEPT !.phase = "done"]
    /\ OnlyWalk

NextReward == MinerReward \/ UncleReward \/ Withdrawal \/ RewardReturn

SpecReward == InitReward /\ [][NextReward]_vars

(***************************************************************************)
(* SpecFee: the fee computation of record_transaction on one transaction   *)
(* of a Success trace.  Absent fields are NoField.  U256 arithmetic is     *)
(* scaled down to the width WordBits; a subtraction below zero either      *)
(* panics or wraps, depending on the build.                                *)
(***************************************************************************)
MaxPrice == 2
MaxGas == 2
WordBits == 8
Modulus == 2 ^ WordBits
NoField == -1
unwrap_or(field, default) == IF field = NoField THEN default ELSE field

\* A tip that is never capped by max_fee_per_gas.
tip_uncapped(transaction, block_base_fee_per_gas) == IF transaction.max_priority_fee_per_gas # NoField THEN transaction.max_priority_fee_per_gas ELSE unwrap_or(transaction.gas_price, 0) - block_base_fee_per_gas

\* max_priority_fee_per_gas of record_transaction, before any wrapping: the
\* result is below zero when the subtraction underflows.
tip_per_gas(transaction, block_base_fee_per_gas) ==
    LET gas_price == unwrap_or(transaction.gas_price, 0)
        max_fee_per_gas == unwrap_or(transaction.max_fee_per_gas, 0)
        tips == transaction.max_priority_fee_per_gas
    IN  IF tips # NoField
        THEN IF max_fee_per_gas > tips + block_base_fee_per_gas
             THEN tips
             ELSE gas_price - block_base_fee_per_gas
        ELSE gas_price - block_base_fee_per_gas

InitFee ==
    /\ InitWith(FALSE, {NoSplit})
    /\ call = NoCall
    /\ \E gas_price \in {NoField} \cup 0..(2 * MaxPrice) :
       \E max_fee_per_gas \in {NoField} \cup 0..(MaxPrice + 1) :
       \E max_priority_fee_per_gas \in {NoField} \cup 0..MaxPrice :
       \E base_fee_per_gas \in {NoField} \cup 0..MaxPrice :
       \E gas_used \in 0..MaxGas, blob_fee \in 0..1 :
         walk = [phase |-> "start",
                 transaction |-> [gas_price |-> gas_price,
                                  max_fee_per_gas |-> max_fee_per_gas,
                                  max_priority_fee_per_gas |-> max_priority_fee_per_gas],
                 base_fee_per_gas |-> base_fee_per_gas,
                 gas_used |-> gas_used, blob_fee |-> blob_fee,
                 tip |-> 0, sender_value |-> 0, recipient_value |-> 0]

\* Lines 136-154: the tip per gas.
ComputeTip ==
    /\ walk.phase = "start"
    /\ LET tip == tip_per_gas(walk.transaction, unwrap_or(walk.base_fee_per_gas, 0))
       IN  IF tip >= 0
           THEN walk' = [walk EXCEPT !.phase = "tip", !.tip = tip]
           ELSE \/ walk' = [walk EXCEPT !.phase = "panicked"]
                \/ walk' = [walk EXCEPT !.phase = "tip", !.tip = tip % Modulus]
    /\ OnlyWalk

\* Lines 161-174: the fee the sender pays and the fee the miner gets.
ComputeFees ==
    /\ walk.phase = "tip"
    /\ walk' = [walk EXCEPT
                  !.phase = "fees",
                  !.sender_value =
                      ((((walk.gas_used * unwrap_or(walk.transaction.gas_price, 0))
                           % Modulus) + walk.blob_fee) % Modulus),
                  !.recipient_value = (walk.gas_used * walk.tip) % Modulus]
    /\ OnlyWalk

\* record_transfer's assertion recipient_value <= sender_value on the fee.
FeeAssert ==
    /\ walk.phase = "fees"
    /\ walk' = [walk EXCEPT !.phase = IF walk.recipient_value <= walk.sender_value
                                      THEN "sent" ELSE "asserted"]
    /\ OnlyWalk

NextFee == ComputeTip \/ ComputeFees \/ FeeAssert

SpecFee == InitFee /\ [][NextFee]_vars

(***************************************************************************)
(* Properties.                                                             *)
(***************************************************************************)
Bounded(score) == 0 <= score.dirty_amount /\ score.dirty_amount <= score.balance
ScoresOf(view) ==
    {view.address_score[a] : a \in DOMAIN view.address_score}
        \cup {r.score : r \in view.block_snapshots}
AllScores ==
    {cache.data[a] : a \in DOMAIN cache.data} \cup {drained[a] : a \in DOMAIN drained}
        \cup ScoresOf(txn.view) \cup ScoresOf(db)

\* C1: in every reachable state every Score in the cache, in AddressScoreTable
\* and in BlockSnapshotTable (committed or in the open write transaction) has
\* dirty_amount <= balance, and no subtraction has wrapped below zero.
C1_TaintBound == \A score \in AllScores : Bounded(score)

\* A committed snapshot that is partly dirty: a split has been applied.
C1_Witness ==
    \E r \in db.block_snapshots :
        0 < r.score.dirty_amount /\ r.score.dirty_amount < r.score.balance

\* C2: the committed tables change only in the step that is txn.commit(), of
\* record_block or of init_new; every other step, and so every failure before
\* the commit, leaves the three tables as they were when the block started.
C2_Atomicity ==
    [][(db' # db) => (pc \in {"flushed", "init_flushed"} /\ pc' = "loop")]_vars

\* The process has failed after events were applied and the store holds what
\* was committed before.
C2_Witness ==
    /\ pc = "failed"
    /\ nops > 0
    /\ db.block_snapshots # {}

\* The entry (A, B) is in the tables of the view and was not there in `before`.
Written(before, view, address, block_number) ==
    /\ block_number \in view.address_history[address]
    /\ block_number \notin before.address_history[address]
    /\ set_subkey(view, block_number, address) # {}
    /\ set_subkey(before, block_number, address) = {}

WasDirty(address) == address \in DOMAIN db.address_score
BecameDirty(address) == address \in DOMAIN drained /\ is_dirty(drained[address])

\* C3 as stated: when block B is flushed, for EVERY address A the entry (A, B)
\* is written iff A was in AddressScoreTable before the block or became dirty
\* during it.
C3_EveryAddress ==
    pc = "flushed" =>
        \A a \in Addr :
            Written(db, txn.view, a, current_block_number)
                <=> (WasDirty(a) \/ BecameDirty(a))

\* C3 amended: when block B is flushed, the entry (A, B) is written iff A is in
\* the drained cache (the block touched it) and A was in AddressScoreTable
\* before the block or is dirty after it; the snapshot written is A's cached
\* score; and when no touched address is of that kind the flush leaves all
\* three tables, and so the last block number, unchanged.
C3_FlushDiscipline ==
    pc = "flushed" =>
        /\ \A a \in Addr :
             /\ Written(db, txn.view, a, current_block_number)
                  <=> (a \in DOMAIN drained /\ (WasDirty(a) \/ BecameDirty(a)))
             /\ Written(db, txn.view, a, current_block_number)
                  => set_subkey(txn.view, current_block_number, a) = {drained[a]}
        /\ (\A a \in DOMAIN drained : ~WasDirty(a) /\ ~BecameDirty(a))
             => /\ txn.view = db
                /\ get_last_block_number(txn.view) = get_last_block_number(db)

\* A flush that records one touched address and leaves out another that was
\* clean before and is clean after.
C3_Witness ==
    /\ pc = "flushed"
    /\ \E a \in DOMAIN drained : Written(db, txn.view, a, current_block_number)
    /\ \E a \in DOMAIN drained :
         /\ ~WasDirty(a) /\ ~BecameDirty(a)
         /\ ~Written(db, txn.view, a, current_block_number)

\* The snapshots stored for the address at the largest block of its history.
LastSnapshot(view, address) ==
    IF view.address_history[address] = {} THEN {}
    ELSE set_subkey(view, SetMax(view.address_history[address]), address)

\* C4: in the committed store, after init_new and after every block, an
\* address is a key of AddressScoreTable iff the snapshot at the largest block
\* of its history is dirty, and then the table holds exactly that score.
C4_CurrentDirty ==
    \A a \in Addr :
        /\ a \in DOMAIN db.address_score
             <=> \E score \in LastSnapshot(db, a) : is_dirty(score)
        /\ a \in DOMAIN db.address_score
             => LastSnapshot(db, a) = {db.address_score[a]}

\* An address that was dirty and is clean again: its last snapshot is clean
\* and it is no key of AddressScoreTable, while another address is a key.
C4_Witness ==
    /\ \E a \in Addr :
         /\ a \notin DOMAIN db.address_score
         /\ \E score \in LastSnapshot(db, a) : ~is_dirty(score)
    /\ DOMAIN db.address_score # {}

HistoryPairs(view) == {p \in Addr \X Blocks : p[2] \in view.address_history[p[1]]}
SnapshotPairs(view) == {<<r.address, r.block>> : r \in view.block_snapshots}

\* C5: in the committed store AddressHistoryTable and BlockSnapshotTable hold
\* the same (address, block) pairs.
C5_SamePairs ==
    /\ HistoryPairs(db) = SnapshotPairs(db)
    /\ \A a \in Addr : db.address_history[a] \subseteq Blocks

\* Entries of two addresses, one of them written by a block of the loop.
C5_Witness ==
    /\ \E p \in SnapshotPairs(db) : p[2] >= INI_BLOCK_NUMBER_TC
    /\ \E p, q \in HistoryPairs(db) : p[1] # q[1]

\* Every block number `after` adds for an address is above all `before` holds.
Appends(before, after) ==
    \A a \in Addr :
        \A b \in after.address_history[a] \ before.address_history[a] :
            \A c \in before.address_history[a] : c < b

\* C6: the history of an address is a duplicate-free ascending list (it is the
\* sorted duplicate set of its key), and every block number a step adds for an
\* address is larger than all block numbers the address already had: in the
\* write transaction at every step (where a reset has cleared the table before
\* the bootstrap writes), and in the committed store at every commit of a
\* block, across aborts, resumes and resets.
C6_MonotoneHistory ==
    [][/\ Appends(txn.view, txn'.view)
       /\ pc # "init_flushed" => Appends(db, db')]_vars

\* An address whose committed history holds two blocks.
C6_Witness == \E a \in Addr : Cardinality(db.address_history[a]) >= 2

\* At most one snapshot is stored under a (block, address) pair.
WriteOnce(view) ==
    \A r, q \in view.block_snapshots :
        (r.block = q.block /\ r.address = q.address) => r = q

\* C7: no (block, address) pair receives a second snapshot, and a commit other
\* than init_new's keeps every committed snapshot and history entry as it is.
C7_WriteOnce ==
    [][/\ WriteOnce(db') /\ WriteOnce(txn'.view)
       /\ pc # "init_flushed" =>
            /\ db.block_snapshots \subseteq db'.block_snapshots
            /\ \A a \in Addr : db.address_history[a] \subseteq db'.address_history[a]]_vars

\* The committed store holds snapshots of one address at two blocks, with
\* different scores, and the driver has been restarted into the loop.
C7_Witness ==
    /\ pc = "loop"
    /\ drained = EmptyMap
    /\ \E r, q \in db.block_snapshots :
         r.address = q.address /\ r.block < q.block /\ r.score # q.score

\* C8: with fixed chain-source responses, every commit of a block that was
\* committed before (in this run or in an earlier one, from bootstrap, after
\* a resume or after a reset) leaves the store exactly as the first commit of
\* that block left it.
C8_DeterministicReplay ==
    (chain.fixed /\ pc = "loop")
        => /\ current_block_number - 1 \in DOMAIN replay.after
           /\ db = replay.after[current_block_number - 1]

\* A block of the loop has been committed a second time, with entries of it
\* in the store.
C8_Witness ==
    /\ chain.fixed
    /\ pc = "loop"
    /\ replay.again
    /\ current_block_number > INI_BLOCK_NUMBER_TC
    /\ \E r \in db.block_snapshots : r.block = current_block_number - 1

\* C9 as stated: after block B is committed, for every address A the block
\* touched, get_address_score_by_block_number(A, B) is the score A had after
\* block B (the chain's balance of A at B being that score's balance).
C9_ScoreAt ==
    pc = "loop" =>
        \A a \in DOMAIN drained :
            get_address_score_by_block_number(db, a, current_block_number - 1,
                                              drained[a].balance) = drained[a]

\* C10: for every balance v and every proportion with balance > 0 and
\* dirty_amount <= balance, with_same_uncleanliness_ceil does not panic and
\* returns balance v and a dirty_amount between the floor and the ceiling of
\* v * dirty_amount / balance that is at most v.
C10_SplitConservative ==
    (split.done /\ split.proportion.balance > 0) =>
        LET v == split.balance
            b == split.proportion.balance
            d == split.proportion.dirty_amount
            ts == split.score
        IN  /\ ~split.panic
            /\ ts.balance = v
            /\ (ts.dirty_amount + 1) * b > v * d
            /\ ts.dirty_amount >= 0
            /\ (ts.dirty_amount = 0 \/ (ts.dirty_amount - 1) * b < v * d)
            /\ ts.dirty_amount <= v

\* A call whose quotient is not whole, so that the ceiling rounds up.
C10_Witness ==
    /\ split.done
    /\ ~split.panic
    /\ split.proportion.balance > 0
    /\ (split.balance * split.proportion.dirty_amount) % split.proportion.balance # 0
    /\ split.score.dirty_amount * split.proportion.balance
           > split.balance * split.proportion.dirty_amount

\* C11: for every balance v and every proportion with balance > 0, a clean
\* proportion (dirty_amount = 0) gives dirty_amount 0, and a fully dirty
\* proportion (dirty_amount = balance) gives new_dirty(v); neither call panics.
C11_RatioEndPoints ==
    (split.done /\ split.proportion.balance > 0) =>
        /\ split.proportion.dirty_amount = 0
             => (~split.panic /\ split.score.dirty_amount = 0)
        /\ split.proportion.dirty_amount = split.proportion.balance
             => (~split.panic /\ split.score = new_dirty(split.balance))

\* A call with a fully dirty proportion other than the balance split.
C11_Witness ==
    /\ split.done
    /\ split.balance > 0
    /\ split.proportion.balance > split.balance
    /\ split.proportion.dirty_amount = split.proportion.balance
    /\ split.score = new_dirty(split.balance)

(***************************************************************************)
(* Properties of one record_transfer call (SpecTransfer).                  *)
(***************************************************************************)
\* The score an address holds before the call: the cache entry, else the
\* AddressScoreTable entry, else the clean chain balance.
PriorScore(address, balance) ==
    IF address \in DOMAIN call.data THEN call.data[address]
    ELSE IF address \in DOMAIN call.view.address_score
         THEN call.view.address_score[address]
    ELSE new_clean(balance)
\* The least q with q * d >= n, for d > 0.
Ceil(n, d) == CHOOSE q \in 0..n : q * d >= n /\ (q = 0 \/ (q - 1) * d < n)
Sender == CHOOSE a \in call.sender_address : TRUE
SenderPrior == PriorScore(Sender, call.sender_balance)
RecipientPrior == PriorScore(call.recipient_address, call.recipient_balance)
Untouched(touched) ==
    /\ DOMAIN call.result = DOMAIN call.data \cup touched
    /\ \A a \in DOMAIN call.data \ touched : call.result[a] = call.data[a]

\* C12: a transfer of v from S to R, with R not a source address, S # R,
\* prior(S) = (b, d), b > 0 and v <= b and no recipient value, returns and
\* sets cache[S] = (b - v, d - ceil(v*d/b)) and cache[R] = prior(R) +
\* (v, ceil(v*d/b)), changes no other cache entry, and keeps the sum of the
\* balances and the sum of the dirty amounts of S and R.
C12_PlainTransfer ==
    (/\ call.done
     /\ call.sender_address # {}
     /\ call.recipient_value = {}
     /\ call.recipient_address \notin TC_ETH_ADDRESS
     /\ call.recipient_address # Sender
     /\ SenderPrior.balance > 0
     /\ call.sender_value <= SenderPrior.balance) =>
        LET v == call.sender_value
            moved == Ceil(v * SenderPrior.dirty_amount, SenderPrior.balance)
            S == call.result[Sender]
            R == call.result[call.recipient_address]
        IN  /\ ~call.panic
            /\ Untouched({Sender, call.recipient_address})
            /\ S = new(SenderPrior.balance - v, SenderPrior.dirty_amount - moved)
            /\ R = new(RecipientPrior.balance + v, RecipientPrior.dirty_amount + moved)
            /\ S.balance + R.balance = SenderPrior.balance + RecipientPrior.balance
            /\ S.dirty_amount + R.dirty_amount
                   = SenderPrior.dirty_amount + RecipientPrior.dirty_amount
C12_Witness ==
    /\ call.done /\ ~call.panic
    /\ call.sender_address # {} /\ call.recipient_value = {}
    /\ call.recipient_address \notin TC_ETH_ADDRESS
    /\ call.recipient_address # Sender
    /\ SenderPrior = new(3, 1) /\ call.sender_value = 1
    /\ RecipientPrior = new(2, 1)
    /\ call.recipient_address \in DOMAIN call.view.address_score
    /\ call.result[Sender] = new(2, 0)
    /\ call.result[call.recipient_address] = new(3, 2)

\* The value that arrives: recipient_value when given, else sender_value.
Received ==
    IF call.recipient_value = {} THEN call.sender_value
    ELSE CHOOSE v \in call.recipient_value : TRUE
\* The sender's proportional share of sender_value: (v, ceil(v*d/b)).
Share ==
    new(call.sender_value,
        IF SenderPrior.dirty_amount = 0 THEN 0
        ELSE Ceil(call.sender_value * SenderPrior.dirty_amount, SenderPrior.balance))
Debited == new(SenderPrior.balance - Share.balance,
               SenderPrior.dirty_amount - Share.dirty_amount)

\* C13: a transfer that returns and whose recipient R is a source address
\* credits R with (v, v), v the value that arrives, whatever the sender's taint
\* (a clean sender, no sender at all, R itself), and debits a sender only by
\* its proportional share (v_send, ceil(v_send*d/b)); without a recipient value
\* the call returns whenever the sender is absent or holds v_send.
C13_SourceRecipient ==
    (call.done /\ call.recipient_address \in TC_ETH_ADDRESS) =>
        LET R == call.recipient_address
            coinbase == call.sender_address = {}
            before == IF ~coinbase /\ Sender = R THEN Debited ELSE RecipientPrior
        IN  /\ ~call.panic =>
                /\ call.result[R] = new(before.balance + Received,
                                        before.dirty_amount + Received)
                /\ (~coinbase /\ Sender # R) => call.result[Sender] = Debited
                /\ Untouched(call.sender_address \cup {R})
            /\ (/\ call.recipient_value = {}
                /\ coinbase \/ (SenderPrior.balance > 0
                                  /\ call.sender_value <= SenderPrior.balance))
                    => ~call.panic
C13_Witness ==
    /\ call.done /\ ~call.panic
    /\ call.recipient_address \in TC_ETH_ADDRESS
    /\ call.sender_address # {} /\ Sender # call.recipient_address
    /\ Sender \notin DOMAIN call.data
    /\ Sender \notin DOMAIN call.view.address_score
    /\ SenderPrior = new(3, 0) /\ call.sender_value = 2
    /\ call.recipient_value = {}
    /\ RecipientPrior = new(1, 1)
    /\ call.result[Sender] = new(1, 0)
    /\ call.result[call.recipient_address] = new(3, 3)

PriorScores(address) ==
    IF get_score(txn.view, cache.data, address) # {}
    THEN get_score(txn.view, cache.data, address)
    ELSE {new_clean(b) : b \in get_balance(address, current_block_number - 1)}

\* C15: a coinbase transfer (a step of record_reward) to a recipient R adds
\* exactly (v, 0) to the prior score of a non-source R, so R's dirty amount
\* stays, and changes no other cache entry, not the self-destruct list and
\* nothing in the write transaction or the store; no sender is debited.
C15_Coinbase ==
    [][pc' = "reward" =>
        \E R \in Addr, v \in Values :
            /\ DOMAIN cache'.data = DOMAIN cache.data \cup {R}
            /\ \A a \in DOMAIN cache.data \ {R} : cache'.data[a] = cache.data[a]
            /\ cache'.self_destruct = cache.self_destruct
            /\ txn' = txn /\ db' = db /\ drained' = drained
            /\ R \notin TC_ETH_ADDRESS =>
                 \E prior \in PriorScores(R) :
                     cache'.data[R] = new(prior.balance + v, prior.dirty_amount)]_vars
C15_Witness ==
    /\ pc = "reward"
    /\ DOMAIN cache.data = {block_miner}
    /\ block_miner \in DOMAIN txn.view.address_score
    /\ txn.view.address_score[block_miner].balance
           > txn.view.address_score[block_miner].dirty_amount
    /\ cache.data[block_miner] =
           new(txn.view.address_score[block_miner].balance + 1,
               txn.view.address_score[block_miner].dirty_amount)

\* C16: the step that ends a transaction leaves every address of the
\* self-destruct list with the cache score (0, 0) and the list empty, and the
\* list is empty whenever no call tree is being walked; at the flush of block
\* B an address that was a key of AddressScoreTable before the block and whose
\* cached score is still (0, 0) is no key any more, and (B, address) holds the
\* zero score in BlockSnapshotTable and B is in its history.
C16_SelfDestructWipe ==
    /\ [][(pc = "frames" /\ pc' = "tx") =>
            /\ \A i \in DOMAIN cache.self_destruct :
                 /\ cache.self_destruct[i] \in DOMAIN cache'.data
                 /\ cache'.data[cache.self_destruct[i]] = new(0, 0)
            /\ cache'.self_destruct = <<>>]_vars
    /\ [](pc # "frames" => cache.self_destruct = <<>>)
    /\ [](pc = "flushed" =>
            \A a \in DOMAIN drained :
                (drained[a] = new(0, 0) /\ WasDirty(a)) =>
                    /\ a \notin DOMAIN txn.view.address_score
                    /\ set_subkey(txn.view, current_block_number, a) = {new(0, 0)}
                    /\ current_block_number \in txn.view.address_history[a])
\* The dirty amount of an address before the open block and at its flush.
DirtBefore(address) ==
    IF WasDirty(address) THEN db.address_score[address].dirty_amount ELSE 0
DirtAfter(address) ==
    IF address \in DOMAIN drained THEN drained[address].dirty_amount
    ELSE DirtBefore(address)
\* A dirty address is flushed with the zero score while no other address
\* has gained or lost any dirty amount: its balance was wiped, not sent.
C16_Witness ==
    /\ pc = "flushed"
    /\ \E a \in Addr \ {block_miner} :
         /\ a \in DOMAIN drained
         /\ drained[a] = new(0, 0)
         /\ WasDirty(a)
         /\ db.address_score[a].balance > 0
         /\ a \notin DOMAIN txn.view.address_score
         /\ set_subkey(txn.view, current_block_number, a) = {new(0, 0)}
         /\ \A b \in Addr \ {a} : DirtAfter(b) = DirtBefore(b)

\* The store that holds exactly the seed of the given source addresses at
\* block B0: each with a fully dirty score of the balance init_tc was told.
SeedStore(seeded, block_number) ==
    [address_score |-> [a \in seeded |-> new(drained[a].balance, drained[a].balance)],
     block_snapshots |->
         {[block |-> block_number, address |-> a,
           score |-> new(drained[a].balance, drained[a].balance)] : a \in seeded},
     address_history |-> [a \in Addr |-> IF a \in seeded THEN {block_number} ELSE {}]]
InitNewCommits == pc = "init_flushed" /\ pc' = "loop"

\* C17 as stated: when init_new(B0) commits, the store holds exactly the seed
\* of EVERY source address: a key of AddressScoreTable with the score
\* new_dirty(balance), the same score under (B0, address), history {B0}, no
\* other entry in any table, and the last block number is B0.
C17_SeedEverySource ==
    [][InitNewCommits =>
        /\ DOMAIN drained = TC_ETH_ADDRESS
        /\ db' = SeedStore(TC_ETH_ADDRESS, current_block_number)
        /\ get_last_block_number(db') = {current_block_number}]_vars

\* C17 amended: when init_new(B0) commits, whatever the store held before, the
\* store holds exactly the seed of the source addresses whose balance at B0 is
\* not zero, and nothing else; the last block number is B0 when there is such
\* an address and absent when there is none.
C17_SeedNonZero ==
    [][InitNewCommits =>
        LET seeded == {a \in TC_ETH_ADDRESS : drained[a].balance > 0}
        IN  /\ DOMAIN drained = TC_ETH_ADDRESS
            /\ current_block_number = INI_BLOCK_NUMBER_TC - 1
            /\ db' = SeedStore(seeded, current_block_number)
            /\ get_last_block_number(db') =
                   IF seeded = {} THEN {} ELSE {current_block_number}]_vars
\* init_new is about to commit a seed with a balance over a store that holds
\* later blocks and other addresses.
C17_Witness ==
    /\ pc = "init_flushed"
    /\ \E r \in db.block_snapshots :
         r.block >= INI_BLOCK_NUMBER_TC /\ r.address \notin TC_ETH_ADDRESS
    /\ DOMAIN db.address_score \ TC_ETH_ADDRESS # {}
    /\ \E a \in TC_ETH_ADDRESS : drained[a].balance > 0
    /\ txn.view = SeedStore(TC_ETH_ADDRESS, INI_BLOCK_NUMBER_TC - 1)

\* The block keys of the committed BlockSnapshotTable.
StoredBlocks == {r.block : r \in db.block_snapshots}

\* C18: a start without --reset on a store whose last block number is B
\* resumes: the store is kept, no write transaction is open and the loop
\* starts at B + 1; a start with --reset, or on a store without a last block
\* number, enters init_new(INI_BLOCK_NUMBER_TC - 1) on cleared tables, and the
\* loop starts at INI_BLOCK_NUMBER_TC when init_new has committed; the block
\* the loop processes first is the one it starts at.
C18_StartPoint ==
    /\ [][\A is_reset \in BOOLEAN :
            StartWith(is_reset) =>
                IF ~is_reset /\ StoredBlocks # {}
                THEN /\ pc' = "loop"
                     /\ current_block_number' = SetMax(StoredBlocks) + 1
                     /\ db' = db /\ ~txn'.open
                ELSE /\ pc' = "init_tc"
                     /\ current_block_number' = INI_BLOCK_NUMBER_TC - 1
                     /\ db' = db /\ txn'.open /\ txn'.view = EmptyView]_vars
    /\ [](pc \in {"init_tc", "init_flushed"}
            => current_block_number = INI_BLOCK_NUMBER_TC - 1)
    /\ [][(pc = "init_flushed" /\ pc' = "loop")
            => current_block_number' = INI_BLOCK_NUMBER_TC]_vars
    /\ [][(pc = "loop" /\ pc' = "tx")
            => current_block_number' = current_block_number]_vars
\* A run that resumed after the last stored block, beyond the first block of
\* the range, and has not begun a block yet.
C18_Witness ==
    /\ pc = "loop" /\ ~txn.open
    /\ drained = EmptyMap
    /\ StoredBlocks # {}
    /\ {INI_BLOCK_NUMBER_TC - 1, INI_BLOCK_NUMBER_TC} \subseteq StoredBlocks
    /\ current_block_number = SetMax(StoredBlocks) + 1
    /\ current_block_number <= END_BLOCK_NUMBER

\* The positions inside record_block, and those of a stopped process.
InBlock == {"tx", "frames", "reward", "flushed"}
NotRunning == {"off", "failed"}

\* C20: within a run the loop begins block current_block_number only when no
\* write transaction is open and the number is at most END_BLOCK_NUMBER; the
\* number stays while the block is processed and grows by exactly one when the
\* block's write transaction commits, which is the only way from inside a
\* block back to the loop; a failure inside a block ends the run with the
\* store as it was; the run ends normally only beyond END_BLOCK_NUMBER.
C20_AscendingBlocks ==
    /\ [][(pc = "loop" /\ pc' = "tx") =>
            /\ ~txn.open /\ txn'.open /\ txn'.view = db
            /\ current_block_number <= END_BLOCK_NUMBER
            /\ current_block_number' = current_block_number]_vars
    /\ [][(pc \in InBlock /\ pc' \in InBlock) =>
            /\ current_block_number' = current_block_number
            /\ db' = db]_vars
    /\ [][(pc \in InBlock /\ pc' \notin InBlock) =>
            \/ /\ pc = "flushed" /\ pc' = "loop"
               /\ db' = txn.view /\ ~txn'.open
               /\ current_block_number' = current_block_number + 1
            \/ /\ pc' = "failed"
               /\ db' = db /\ ~txn'.open]_vars
    /\ [][pc' = "loop" => pc \in {"flushed", "init_flushed"} \cup NotRunning]_vars
    /\ [][(pc = "loop" /\ pc' \in NotRunning) =>
            (pc' = "off" => current_block_number > END_BLOCK_NUMBER)]_vars
    /\ [](txn.open <=> pc \in InBlock \cup {"init_tc", "init_flushed"})
\* Block B + 1 has just been begun on the store that block B committed to.
C20_Witness ==
    /\ pc = "tx" /\ txn.open /\ txn.view = db
    /\ current_block_number = INI_BLOCK_NUMBER_TC + 1
    /\ INI_BLOCK_NUMBER_TC \in StoredBlocks
    /\ drained = EmptyMap /\ cache = NewCache

(***************************************************************************)
(* Properties of the order of calls within one block (SpecOrder).          *)
(***************************************************************************)
RECURSIVE PreOrder(_, _)
RECURSIVE PreOrderAll(_, _)
\* The frames that record a transfer, in depth-first pre-order, left to
\* right, below and including `frame`; a failed frame hides its subtree.
PreOrder(trace, frame) ==
    IF trace.error[frame] THEN <<>>
    ELSE (IF trace.value[frame] THEN <<frame>> ELSE <<>>)
             \o PreOrderAll(trace, {j \in 1..trace.n : trace.parent[j] = frame})
\* The same for a set of sibling frames, smallest (leftmost) first.
PreOrderAll(trace, frames) ==
    IF frames = {} THEN <<>>
    ELSE LET first == CHOOSE j \in frames : \A k \in frames : j <= k
         IN  PreOrder(trace, first) \o PreOrderAll(trace, frames \ {first})

\* What transaction tx sends to the recorder and the cache, from its trace.
ExpectedOf(trace, tx) ==
    (IF trace.success
     THEN <<Entry("fee", tx, 0)>>
              \o [k \in 1..Len(PreOrder(trace, 1)) |->
                     Entry("transfer", tx, PreOrder(trace, 1)[k])]
     ELSE <<>>) \o <<Entry("wipe", tx, 0)>>
IsPrefix(s, t) == Len(s) <= Len(t) /\ \A k \in 1..Len(s) : s[k] = t[k]
LogOf(tx) == SelectSeq(walk.log, LAMBDA e : e.tx = tx)
\* The place of an entry in a block: its transaction, then rewards, then flush.
Rank(e) ==
    IF e.kind \in {"fee", "transfer", "wipe"} THEN e.tx
    ELSE IF e.kind = "reward" THEN MaxTxs + 1
    ELSE MaxTxs + 2

\* C19: within a block the entries of the log are grouped by ascending
\* transaction index, then the rewards, then the flush; the entries of the
\* transaction in progress are the beginning of: its fee transfer, the
\* transfers of its call tree in depth-first pre-order, left to right, its
\* wipe; they are all of it once the loop is back between transactions, and
\* a finished block has a wipe for every transaction, all its rewards and
\* the flush as its last entry.
C19_BlockOrder ==
    /\ \A p \in DOMAIN walk.log : \A q \in DOMAIN walk.log :
         p < q => Rank(walk.log[p]) <= Rank(walk.log[q])
    /\ \A p \in DOMAIN walk.log :
         walk.log[p].kind \in {"fee", "transfer", "wipe"} => walk.log[p].tx \in 1..walk.i
    /\ walk.i >= 1 =>
         /\ IsPrefix(LogOf(walk.i), ExpectedOf(walk.trace, walk.i))
         /\ walk.phase \in {"txs", "rewards", "done"}
              => LogOf(walk.i) = ExpectedOf(walk.trace, walk.i)
    /\ \A tx \in 1..(walk.i - 1) :
         Len(SelectSeq(walk.log, LAMBDA e : e = Entry("wipe", tx, 0))) = 1
    /\ walk.phase = "done" =>
         /\ walk.i = walk.txs
         /\ walk.log[Len(walk.log)] = Entry("flush", 0, 0)
         /\ SelectSeq(walk.log, LAMBDA e : e.kind = "reward")
                = [k \in 1..walk.rewards |-> Entry("reward", 0, k)]
         /\ Len(SelectSeq(walk.log, LAMBDA e : e.kind = "flush")) = 1
\* A finished block with two transactions and a reward; the second has a
\* call tree whose pre-order is not the order of the frame numbers, and
\* all four frames record a transfer.
C19_Witness ==
    /\ walk.phase = "done" /\ walk.txs = 2 /\ walk.rewards >= 1
    /\ walk.trace.success /\ walk.trace.n = 4
    /\ walk.trace.parent = <<0, 1, 1, 2>>
    /\ LogOf(2) = <<Entry("fee", 2, 0), Entry("transfer", 2, 1),
                    Entry("transfer", 2, 2), Entry("transfer", 2, 4),
                    Entry("transfer", 2, 3), Entry("wipe", 2, 0)>>
    /\ Len(LogOf(1)) >= 3

(***************************************************************************)
(* Properties of the Blockchain instance across record_block calls.        *)
(***************************************************************************)
\* C21: whenever record_block is about to start on the instance, the cache's
\* data map and its self_destruct list are empty, also after a record_block
\* call that returned an error.
C21_CacheEmptyAtStart ==
    pc = "loop" => (cache.data = EmptyMap /\ cache.self_destruct = <<>>)

\* C22: a step on which an assertion of the pipeline fails (a frame without
\* `to`, a block without number, a fee to the miner above the fee paid, an
\* insolvent sender, a Score with dirty_amount > balance) ends the run with
\* the write transaction dropped and the store exactly as it was; no step
\* inside a block continues with a score that breaks 0 <= dirty <= balance.
C22_AbortBeforeCommit ==
    /\ [][(FrameWithoutTo \/ BlockWithoutNumber \/ FeeAboveTotal)
            => (pc' = "failed" /\ db' = db /\ txn' = NoTxn)]_vars
    /\ [][pc' = "failed" => (db' = db /\ txn' = NoTxn /\ cache' = NewCache)]_vars
    /\ [](pc \in {"tx", "frames", "reward"} =>
            \A a \in DOMAIN cache.data : Bounded(cache.data[a]))
\* A run ended by a failed assertion on a store that holds the bootstrap and
\* the first block, and nothing of a later block.
C22_Witness ==
    /\ pc = "failed"
    /\ {r.block : r \in db.block_snapshots}
           = {INI_BLOCK_NUMBER_TC - 1, INI_BLOCK_NUMBER_TC}

\* The positions of the events of a kind in the trace read for a block.
EventsOf(block_number, kinds) ==
    {p \in DOMAIN chain.blocks[block_number] :
        chain.blocks[block_number][p].kind \in kinds}

\* C23: a transaction whose trace result is Error changes no cache score and
\* nothing in the write transaction or the store, and the pipeline stays
\* between transactions of the same block, where the next transaction, the
\* rewards and the flush are taken up as after any other transaction.
C23_TraceErrorSkipped ==
    [][TxError =>
        /\ cache' = cache
        /\ txn' = txn /\ db' = db /\ drained' = drained
        /\ pc' = "tx" /\ current_block_number' = current_block_number]_vars
\* A committed block whose trace has an Error transaction followed by a fee
\* or reward transfer, and the block is recorded in the store.
C23_Witness ==
    /\ chain.fixed /\ pc = "loop"
    /\ current_block_number - 1 \in DOMAIN replay.after
    /\ current_block_number - 1 >= INI_BLOCK_NUMBER_TC
    /\ \E p \in EventsOf(current_block_number - 1, {"error"}) :
         \E q \in EventsOf(current_block_number - 1, {"fee", "reward"}) : p < q
    /\ \E r \in db.block_snapshots : r.block = current_block_number - 1

(***************************************************************************)
(* Properties of the read queries on the committed store (Spec).           *)
(***************************************************************************)
\* The balances the chain source may report to a query.
QueryBalances == 0..2
\* The blocks of the address's history up to the block.
HistoryUpTo(address, block_number) ==
    {b \in db.address_history[address] : b <= block_number}
\* The snapshot stored for the address at the block.
SnapshotAt(address, block_number) ==
    CHOOSE score \in {r.score : r \in {x \in db.block_snapshots :
                          x.block = block_number /\ x.address = address}} : TRUE

\* C24: on every committed store, for every address A, block B and chain
\* balance, get_address_score_by_block_number(A, B) is the snapshot of A at
\* the largest block B' <= B of A's history if that snapshot's balance is not
\* zero, and new_clean(chain balance of A at B) if there is no such block or
\* the snapshot's balance is zero.
C24_ScoreAtLookup ==
    \A a \in Addr, b \in Blocks, balance \in QueryBalances :
        get_address_score_by_block_number(db, a, b, balance) =
            IF HistoryUpTo(a, b) = {} THEN new_clean(balance)
            ELSE IF SnapshotAt(a, SetMax(HistoryUpTo(a, b))).balance # 0
                 THEN SnapshotAt(a, SetMax(HistoryUpTo(a, b)))
                 ELSE new_clean(balance)
\* A store on which the three cases occur: a query answered from a snapshot
\* of an earlier block, one that selects a snapshot with balance zero, and
\* one on an address with a history but no entry up to the block.
C24_Witness ==
    /\ \E a \in Addr, b \in Blocks :
         /\ HistoryUpTo(a, b) # {} /\ b \notin db.address_history[a]
         /\ is_dirty(SnapshotAt(a, SetMax(HistoryUpTo(a, b))))
         /\ get_address_score_by_block_number(db, a, b, 0)
                = SnapshotAt(a, SetMax(HistoryUpTo(a, b)))
    /\ \E a \in Addr, b \in Blocks :
         /\ HistoryUpTo(a, b) # {}
         /\ SnapshotAt(a, SetMax(HistoryUpTo(a, b))).balance = 0
         /\ get_address_score_by_block_number(db, a, b, 2) = new_clean(2)
    /\ \E a \in Addr, b \in Blocks :
         /\ db.address_history[a] # {} /\ HistoryUpTo(a, b) = {}
         /\ get_address_score_by_block_number(db, a, b, 2) = new_clean(2)

(***************************************************************************)
(* Properties of the exports of the committed store (Spec).                *)
(***************************************************************************)
\* The last snapshot of the address at a block up to block_number.
LastSnapshotUpTo(address, block_number) ==
    SnapshotAt(address, SetMax(HistoryUpTo(address, block_number)))
\* The addresses whose last snapshot at a block up to block_number is dirty.
TaintedUpTo(block_number) ==
    {a \in Addr : /\ HistoryUpTo(a, block_number) # {}
                  /\ LastSnapshotUpTo(a, block_number).dirty_amount > 0}

\* C25: on every committed store and for every block B, the map returned by
\* export_tainted_addresses_until_block_number(B) holds exactly the addresses
\* whose last snapshot at a block <= B is dirty, each with that snapshot's
\* score; an address whose last snapshot up to B is clean is not in it.
C25_ReturnsDirtyOnly ==
    \A b \in Blocks :
        LET returned == export_tainted_addresses_until_block_number(db, b).returned
        IN  /\ DOMAIN returned = TaintedUpTo(b)
            /\ \A a \in DOMAIN returned : returned[a] = LastSnapshotUpTo(a, b)
\* The rows written to the CSV file are the dirty last snapshots, and the
\* returned map holds the last snapshot of every address that has one.
C25_RowsAreDirtyLast ==
    \A b \in Blocks :
        LET out == export_tainted_addresses_until_block_number(db, b)
        IN  /\ out.rows = {<<a, LastSnapshotUpTo(a, b)>> : a \in TaintedUpTo(b)}
            /\ DOMAIN out.returned = {a \in Addr : HistoryUpTo(a, b) # {}}
            /\ \A a \in DOMAIN out.returned : out.returned[a] = LastSnapshotUpTo(a, b)

\* The addresses that have an entry under the block key.
AddressesAt(block_number) ==
    {r.address : r \in {x \in db.block_snapshots : x.block = block_number}}
\* The rows the export writes are one per stored block key, in ascending
\* order of the key.
OneRowPerKey(rows) ==
    /\ {rows[i][1] : i \in DOMAIN rows} = StoredBlocks
    /\ \A i, j \in DOMAIN rows : i < j => rows[i][1] < rows[j][1]

\* C26: on every committed store the export of the addresses per block
\* writes exactly one row (B, n) for each block key B of BlockSnapshotTable,
\* in ascending order of B, and n is the number of distinct addresses that
\* have an entry under key B.
C26_CountPerBlock ==
    LET rows == export_historical_amount_of_tainted_addresses(db)
    IN  /\ OneRowPerKey(rows)
        /\ \A i \in DOMAIN rows : rows[i][2] = Cardinality(AddressesAt(rows[i][1]))
\* What the rows hold: n is the number of distinct addresses with an entry
\* under a key up to B.
C26_CountUpToBlock ==
    LET rows == export_historical_amount_of_tainted_addresses(db)
    IN  /\ OneRowPerKey(rows)
        /\ \A i \in DOMAIN rows :
              rows[i][2] = Cardinality(UNION {AddressesAt(b) : b \in 0..rows[i][1]})

(***************************************************************************)
(* Properties of the traversal of one call trace (SpecFrames).             *)
(***************************************************************************)
\* Neither the frame nor any frame above it in the call tree failed.
RECURSIVE Live(_, _)
Live(trace, j) ==
    /\ ~trace.frame[j].error
    /\ trace.parent[j] = 0 \/ Live(trace, trace.parent[j])
\* The frame has a call type that can move value, and a value to move.
MovesValue(trace, j) ==
    /\ trace.frame[j].typ \notin {"DELEGATECALL", "CALLCODE", "STATICCALL"}
    /\ trace.frame[j].value > 0
\* How many record_transfer calls the log holds for frame j.
TransfersFor(j) ==
    Cardinality({i \in DOMAIN walk.log :
                    walk.log[i].kind = "transfer" /\ walk.log[i].frame = j})
\* The frames in the self-destruct list, drained or not.
Destructed ==
    {walk.self_destruct[i] : i \in DOMAIN walk.self_destruct}
        \cup {walk.wiped[i] : i \in DOMAIN walk.wiped}

\* C27: in the traversal of a call trace, a frame whose error is set and
\* every frame below it produce no record_transfer call and no self-destruct
\* entry (a failed root leaves the fee transfer as the only call); a
\* DELEGATECALL, CALLCODE or STATICCALL frame produces none either, whatever
\* its value, while the frames it calls are visited; every other frame that
\* is reached (neither it nor a frame above it failed) and has value > 0
\* produces exactly one record_transfer call.
C27_Traversal ==
    /\ \A j \in 1..walk.trace.n :
          /\ TransfersFor(j) <= 1
          /\ TransfersFor(j) = 1 =>
                Live(walk.trace, j) /\ MovesValue(walk.trace, j)
          /\ j \in Destructed =>
                /\ Live(walk.trace, j)
                /\ walk.trace.frame[j].typ = "SELFDESTRUCT"
                /\ walk.trace.frame[j].code_len = 0
    /\ walk.phase # "fee" =>
          /\ walk.log # <<>> /\ walk.log[1] = Entry("fee", 1, 0)
          /\ \A i \in DOMAIN walk.log : i > 1 => walk.log[i].kind = "transfer"
    /\ walk.phase = "done" =>
          \A j \in 1..walk.trace.n :
              /\ Live(walk.trace, j) /\ MovesValue(walk.trace, j) => TransfersFor(j) = 1
              /\ (/\ Live(walk.trace, j)
                  /\ walk.trace.frame[j].typ = "SELFDESTRUCT"
                  /\ walk.trace.frame[j].code_len = 0) => j \in Destructed
\* A finished traversal of root 1 -> 2 -> 3: the root moves its value, frame
\* 2 failed with a value, and frame 3 below it is a SELFDESTRUCT with a value
\* and no code left; only the root's transfer follows the fee.
C27_Witness ==
    /\ walk.phase = "done"
    /\ walk.trace.n = 3
    /\ walk.trace.parent = <<0, 1, 2>>
    /\ walk.trace.frame[1] = [error |-> FALSE, typ |-> "CALL", value |-> 1, code_len |-> 0]
    /\ walk.trace.frame[2].error /\ walk.trace.frame[2].value = 1
    /\ walk.trace.frame[3] = [error |-> FALSE, typ |-> "SELFDESTRUCT", value |-> 1, code_len |-> 0]
    /\ walk.log = <<Entry("fee", 1, 0), Entry("transfer", 1, 1)>>
    /\ Destructed = {}

(***************************************************************************)
(* Properties of the splits the pipeline invokes (SpecReplay).             *)
(***************************************************************************)
\* The step reads the next event of the current block's trace.
ReadsEvent ==
    /\ pc \in {"tx", "frames", "reward"}
    /\ replay'.pos = replay.pos + 1
\* The event the step reads.
EventRead == chain'.blocks[current_block_number][replay'.pos]
\* The balance of the sender's prior score, if the cache or the open write
\* transaction holds one: the reference of the sender's split.
SenderReference(address) ==
    IF address \in DOMAIN cache.data THEN {cache.data[address].balance}
    ELSE IF address \in DOMAIN txn.view.address_score
         THEN {txn.view.address_score[address].balance}
         ELSE {}
\* The balance of the transfer score a fee is rebased on.
RebaseReference(event) == IF event.kind = "fee" THEN {event.value} ELSE {}

\* C28: whenever the pipeline records the transfer of a fee or of a frame
\* with a sender, the reference score of every split it invokes has a
\* balance above zero: the sender's prior score when the cache or the store
\* holds one, and the transfer score of value v_send that a fee is rebased
\* on.
C28_SplitReferencePositive ==
    [][(/\ ReadsEvent
        /\ EventRead.kind \in {"fee", "call", "selfdestruct"}
        /\ EventRead.to # "")
       => 0 \notin SenderReference(EventRead.from) \cup RebaseReference(EventRead)]_vars
\* The same for the sender's split alone.
C28_SenderReferencePositive ==
    [][(/\ ReadsEvent
        /\ EventRead.kind \in {"fee", "call", "selfdestruct"}
        /\ EventRead.to # "")
       => 0 \notin SenderReference(EventRead.from)]_vars

(***************************************************************************)
(* Properties of SELFDESTRUCT frames (SpecReplay).                         *)
(***************************************************************************)
\* The dirty amount the open block holds for the address: the cache entry,
\* else the entry of the open write transaction, else none.
HeldDirt(address) ==
    IF address \in DOMAIN cache.data THEN cache.data[address].dirty_amount
    ELSE IF address \in DOMAIN txn.view.address_score
         THEN txn.view.address_score[address].dirty_amount
         ELSE 0
\* The dirty amount the open block holds for the address after the step.
DirtNext(address) ==
    IF address \in DOMAIN cache'.data THEN cache'.data[address].dirty_amount
    ELSE IF address \in DOMAIN txn'.view.address_score
         THEN txn'.view.address_score[address].dirty_amount
         ELSE 0
\* The balance the open block holds for the address, if it holds one.
HeldBalance(address) ==
    IF address \in DOMAIN cache.data THEN cache.data[address].balance
    ELSE IF address \in DOMAIN txn.view.address_score
         THEN txn.view.address_score[address].balance
         ELSE 0
\* The step processes a SELFDESTRUCT frame and the block goes on.
SelfDestructProcessed ==
    /\ ReadsEvent
    /\ EventRead.kind = "selfdestruct"
    /\ pc' = "frames"
\* The share of the destructed address's dirty amount that a frame of the
\* given value carries: ceil(v * d / b), nothing when d = 0.
DestructShare(event) ==
    IF HeldDirt(event.from) = 0 THEN 0
    ELSE Ceil(event.value * HeldDirt(event.from), HeldBalance(event.from))

\* C29 as stated: processing a SELFDESTRUCT frame never increases the dirty
\* amount of the frame's beneficiary or of any other address.
C29_NoDirtGained ==
    [][SelfDestructProcessed => \A a \in Addr : DirtNext(a) <= HeldDirt(a)]_vars

\* C29 amended: a SELFDESTRUCT frame with a value v > 0 is recorded as a
\* transfer from frame.from to frame.to like any other frame: the
\* beneficiary's dirty amount grows by the share ceil(v * d / b) of the
\* destructed address's score (b, d), or by v when the beneficiary is a
\* source address, the destructed address loses that share, and no third
\* address changes; a frame without a value changes no score.  The wipe at
\* the end of the transaction sets every marked address to (0, 0) and
\* increases no address's dirty amount.
C29_SelfDestructCredits ==
    /\ [][SelfDestructProcessed =>
            LET e == EventRead
                share == DestructShare(e)
            IN  IF e.to = "" THEN cache'.data = cache.data
                ELSE /\ \A a \in Addr \ {e.from, e.to} : DirtNext(a) = HeldDirt(a)
                     /\ e.to # e.from =>
                           /\ DirtNext(e.from) = HeldDirt(e.from) - share
                           /\ DirtNext(e.to) =
                                 HeldDirt(e.to) + (IF e.to \in TC_ETH_ADDRESS
                                                   THEN e.value ELSE share)
                     /\ e.to = e.from =>
                           DirtNext(e.to) =
                               IF e.to \in TC_ETH_ADDRESS
                               THEN HeldDirt(e.to) - share + e.value
                               ELSE HeldDirt(e.to)]_vars
    /\ [][(pc \in {"tx", "frames"} /\ pc' = "tx" /\ cache.self_destruct # <<>>) =>
            /\ cache'.self_destruct = <<>>
            /\ \A a \in Addr : DirtNext(a) <= HeldDirt(a)
            /\ \A i \in DOMAIN cache.self_destruct :
                  /\ cache.self_destruct[i] \in DOMAIN cache'.data
                  /\ cache'.data[cache.self_destruct[i]] = new(0, 0)]_vars
\* A SELFDESTRUCT frame with no code left has just been processed: its
\* beneficiary, not a source address, not the miner and unknown to the
\* store, holds a dirty amount, and the destructed address is marked.
C29_Witness ==
    /\ pc = "frames"
    /\ replay.pos >= 1
    /\ Len(chain.blocks[current_block_number]) >= replay.pos
    /\ LET e == chain.blocks[current_block_number][replay.pos]
       IN  /\ e.kind = "selfdestruct"
           /\ e.code_len = 0
           /\ e.to \notin TC_ETH_ADDRESS \cup {e.from, "", block_miner}
           /\ e.to \notin DOMAIN txn.view.address_score
           /\ e.to \in DOMAIN cache.data
           /\ cache.data[e.to].dirty_amount > 0
           /\ cache.self_destruct # <<>>
           /\ cache.self_destruct[Len(cache.self_destruct)] = e.from

(***************************************************************************)
(* Properties of the prior-score resolution (SpecPrior).                   *)
(***************************************************************************)
\* The prior score by the rule: the cache entry, else the current_dirty
\* entry, else the clean chain balance at block_number - 1.
ResolvedPrior(address) ==
    IF address \in DOMAIN walk.data THEN walk.data[address]
    ELSE IF address \in DOMAIN walk.view.address_score
         THEN walk.view.address_score[address]
         ELSE new_clean(walk.chain[address])
\* The address has no score in the cache and none in current_dirty.
Unknown(address) ==
    /\ address \notin DOMAIN walk.data
    /\ address \notin DOMAIN walk.view.address_score
\* The addresses that a call of the block has named so far.
Touched ==
    UNION {walk.log[i].sender_address \cup {walk.log[i].recipient_address} :
              i \in DOMAIN walk.log}
\* The share (v, ceil(v * d / b)) of the prior score of the sender.
PriorShare(address, value) ==
    new(value, IF ResolvedPrior(address).dirty_amount = 0 THEN 0
               ELSE Ceil(value * ResolvedPrior(address).dirty_amount,
                         ResolvedPrior(address).balance))

\* C30: in one block, a record_transfer call that returns takes the prior
\* score of its sender and of its recipient from the cache if the cache has
\* the address, else from current_dirty, else as new_clean(chain balance at
\* B - 1), and leaves both addresses in the cache; it asks the chain for
\* exactly the addresses it names that are in neither; so an address is
\* asked for at most once in the block, and never when it is in
\* current_dirty.
C30_WriteThrough ==
    /\ [](\A a \in Addr :
            /\ walk.asks[a] <= 1
            /\ walk.asks[a] = 1 => a \notin DOMAIN walk.view.address_score
            /\ (walk.phase = "block" /\ a \in Touched) => a \in DOMAIN walk.data)
    /\ [][(Len(walk'.log) = Len(walk.log) + 1 /\ walk'.phase = "block") =>
            LET c == walk'.log[Len(walk'.log)]
                R == c.recipient_address
                credit(share) == IF R \in TC_ETH_ADDRESS THEN new(share.balance, share.balance)
                                 ELSE share
            IN  /\ \A a \in Addr :
                      walk'.asks[a] - walk.asks[a] =
                          IF a \in c.sender_address \cup {R} /\ Unknown(a) THEN 1 ELSE 0
                /\ \A a \in DOMAIN walk.data \ (c.sender_address \cup {R}) :
                      walk'.data[a] = walk.data[a]
                /\ IF c.sender_address = {}
                   THEN walk'.data[R] = add(ResolvedPrior(R), credit(new_clean(c.value)))
                   ELSE LET S == CHOOSE x \in c.sender_address : TRUE
                            share == PriorShare(S, c.value)
                            debited == new(ResolvedPrior(S).balance - share.balance,
                                           ResolvedPrior(S).dirty_amount - share.dirty_amount)
                        IN  IF S # R
                            THEN /\ walk'.data[S] = debited
                                 /\ walk'.data[R] = add(ResolvedPrior(R), credit(share))
                            ELSE walk'.data[R] = add(debited, credit(share))]_vars
\* Pool t is in current_dirty and a is not: t sends to a, then a sends back
\* to t.  The chain was asked once, for a in the first call; the second call
\* found both in the cache.
C30_Witness ==
    /\ walk.phase = "block"
    /\ Len(walk.log) = 2
    /\ walk.log[1].sender_address = {"t"} /\ walk.log[1].recipient_address = "a"
    /\ walk.log[2].sender_address = {"a"} /\ walk.log[2].recipient_address = "t"
    /\ "t" \in DOMAIN walk.view.address_score
    /\ "a" \notin DOMAIN walk.view.address_score
    /\ walk.asks = [x \in Addr |-> IF x = "a" THEN 1 ELSE 0]

(***************************************************************************)
(* Properties of record_reward (SpecReward).                               *)
(***************************************************************************)
\* The calls of the log of the given kind made for the given index.
RewardCalls(kind, idx) ==
    {i \in DOMAIN walk.log : walk.log[i].kind = kind /\ walk.log[i].idx = idx}
\* Exactly one call of the kind for the index, to the recipient, of the value.
OneCall(kind, idx, recipient_address, value) ==
    /\ Cardinality(RewardCalls(kind, idx)) = 1
    /\ \A i \in RewardCalls(kind, idx) :
         /\ walk.log[i].recipient_address = recipient_address
         /\ walk.log[i].sender_value = value
\* The static block reward R_s: 2 ether, of 32 units each.
R_s == 2 * 32

\* C31: record_reward on a block B < POS_BLOCK_NUMBER makes exactly one
\* coinbase transfer of R_s + (R_s / 32) * uncle_count to the miner and one
\* of (uncle_number + 8 - B) * R_s / 8 to the miner of each uncle whose
\* header has a number, and none for a withdrawal; on a block B >=
\* POS_BLOCK_NUMBER it makes no block or uncle transfer and exactly one
\* coinbase transfer of amount_gwei * 10^9 per beacon withdrawal; every
\* transfer has no sender and no recipient value, so its score is clean.
C31_RewardBranches ==
    /\ \A i \in DOMAIN walk.log :
         /\ walk.log[i].sender_address = {}
         /\ walk.log[i].recipient_value = {}
         /\ walk.log[i].kind \in
               (IF walk.block.number < POS_BLOCK_NUMBER
                THEN {"block", "uncle"} ELSE {"withdrawal"})
    /\ walk.phase = "done" =>
         IF walk.block.number < POS_BLOCK_NUMBER
         THEN /\ OneCall("block", 0, block_miner,
                         R_s + (R_s \div 32) * Len(walk.block.uncles))
              /\ \A k \in DOMAIN walk.block.uncles :
                   IF walk.block.uncles[k].number # NoNumber
                   THEN OneCall("uncle", k, walk.block.uncles[k].miner,
                                ((walk.block.uncles[k].number + 8 - walk.block.number)
                                    * R_s) \div 8)
                   ELSE RewardCalls("uncle", k) = {}
              /\ Len(walk.log) =
                   1 + Cardinality({k \in DOMAIN walk.block.uncles :
                                       walk.block.uncles[k].number # NoNumber})
         ELSE IF walk.block.withdrawals = NoWithdrawals THEN walk.log = <<>>
              ELSE /\ \A k \in DOMAIN walk.block.withdrawals :
                        OneCall("withdrawal", k, walk.block.withdrawals[k].address,
                                walk.block.withdrawals[k].amount * 1000000000)
                   /\ Len(walk.log) = Len(walk.block.withdrawals)
\* A finished proof-of-work block with two uncles of different depth that
\* also carries a withdrawal: the miner got 64 + 2 * 2, the uncles 56 and
\* 48, and nothing was transferred for the withdrawal.
C31_Witness ==
    /\ walk.phase = "done"
    /\ walk.block.number < POS_BLOCK_NUMBER
    /\ Len(walk.block.uncles) = 2
    /\ walk.block.uncles[1].number = walk.block.number - 1
    /\ walk.block.uncles[2].number = walk.block.number - 2
    /\ walk.block.withdrawals # NoWithdrawals /\ Len(walk.block.withdrawals) = 1
    /\ Len(walk.log) = 3
    /\ walk.log[1].sender_value = 68
    /\ walk.log[2].sender_value = 56
    /\ walk.log[3].sender_value = 48

(***************************************************************************)
(* Properties of the fee computation (SpecFee).                            *)
(***************************************************************************)
\* The base fee f_b of the block, 0 when the header has none.
BaseFee == IF walk.base_fee_per_gas = NoField THEN 0 ELSE walk.base_fee_per_gas
Min(x, y) == IF x <= y THEN x ELSE y
IsEip1559 == walk.transaction.max_priority_fee_per_gas # NoField
\* The tip the protocol pays per gas.
ProtocolTip ==
    IF IsEip1559
    THEN Min(walk.transaction.max_priority_fee_per_gas,
             walk.transaction.max_fee_per_gas - BaseFee)
    ELSE walk.transaction.gas_price - BaseFee
\* The transaction is one a block can hold and gas_price is its effective
\* gas price.
EffectiveGasPrice ==
    /\ walk.transaction.gas_price # NoField
    /\ walk.transaction.gas_price >= BaseFee
    /\ IsEip1559 =>
         /\ walk.transaction.max_fee_per_gas # NoField
         /\ walk.transaction.max_fee_per_gas >= BaseFee
         /\ walk.transaction.gas_price = BaseFee + ProtocolTip

\* C32: when gas_price is the effective gas price of the transaction, the
\* tip per gas is min(max_priority_fee, max_fee - f_b) for an EIP-1559
\* transaction and gas_price - f_b for a legacy one, f_b being 0 when the
\* block has no base fee (then the tip is gas_price); the tip is at most
\* gas_price, the fee to the miner gas_used * tip is at most the fee of the
\* sender plus the blob fee, no subtraction underflows and the assertion of
\* the fee transfer does not fire.
C32_PriorityFee ==
    EffectiveGasPrice =>
        /\ walk.phase \notin {"panicked", "asserted"}
        /\ walk.phase # "start" =>
             /\ walk.tip = ProtocolTip
             /\ walk.tip <= walk.transaction.gas_price
             /\ walk.base_fee_per_gas = NoField => walk.tip = walk.transaction.gas_price
        /\ walk.phase \in {"fees", "sent"} =>
             /\ walk.recipient_value = walk.gas_used * ProtocolTip
             /\ walk.sender_value =
                  walk.gas_used * walk.transaction.gas_price + walk.blob_fee
             /\ walk.recipient_value <= walk.sender_value
\* The fee transfer of an EIP-1559 transaction whose tip is capped by
\* max_fee - f_b has passed the assertion.
C32_Witness ==
    /\ walk.phase = "sent"
    /\ EffectiveGasPrice
    /\ IsEip1559
    /\ BaseFee > 0
    /\ walk.transaction.max_fee_per_gas
          < walk.transaction.max_priority_fee_per_gas + BaseFee
    /\ walk.tip = walk.transaction.max_fee_per_gas - BaseFee
    /\ walk.tip > 0
    /\ walk.gas_used > 0

(***************************************************************************)
(* Resume against the uninterrupted run (SpecReplay).  The uninterrupted   *)
(* run is the fold of the recorder over the events and the balances the    *)
(* chain source has given, block after block, from the bootstrap.          *)
(***************************************************************************)
\* The chain's answer to get_balance(address) at the block; not used when
\* the chain was never asked.
ChainBalance(address, block_number) ==
    IF <<address, block_number>> \in DOMAIN chain.balances
    THEN chain.balances[<<address, block_number>>] ELSE 0
\* One event of block B applied to the open block st = (view, cache).
RunEvent(st, e, B) ==
    LET transfer(sender_address, recipient_value, self_destruct) ==
            LET res == record_transfer(st.view, st.data, sender_address, e.to, e.value,
                                       recipient_value,
                                       ChainBalance(e.from, B - 1),
                                       ChainBalance(e.to, B - 1))
            IN  [st EXCEPT !.data = res.data, !.self_destruct = self_destruct,
                           !.failed = @ \/ res.panic]
        marked == IF e.code_len = 0 THEN Append(st.self_destruct, e.from)
                  ELSE st.self_destruct
    IN  CASE e.kind = "fee" -> transfer({e.from}, {e.fee}, st.self_destruct)
          [] e.kind = "call" -> transfer({e.from}, {}, st.self_destruct)
          [] e.kind = "reward" -> transfer({}, {}, st.self_destruct)
          [] e.kind = "selfdestruct" ->
                IF e.to = "" THEN [st EXCEPT !.self_destruct = marked]
                ELSE transfer({e.from}, {}, marked)
          [] e.kind \in {"error", "end_tx"} ->
                [st EXCEPT !.data = drain_self_destruct(st.data, st.self_destruct),
                           !.self_destruct = <<>>]
          [] e.kind = "end_block" ->
                [st EXCEPT !.view = flush_cache(st.view, st.data, B), !.data = EmptyMap]
          [] OTHER -> st
RECURSIVE RunEvents(_, _, _, _)
RunEvents(st, events, i, B) ==
    IF i > Len(events) THEN st
    ELSE RunEvents(RunEvent(st, events[i], B), events, i + 1, B)
\* The store after the bootstrap.
RunSeed ==
    flush_cache(EmptyView,
                [a \in TC_ETH_ADDRESS |->
                    new(ChainBalance(a, INI_BLOCK_NUMBER_TC - 1),
                        ChainBalance(a, INI_BLOCK_NUMBER_TC - 1))],
                INI_BLOCK_NUMBER_TC - 1)
\* The store after a single run from the bootstrap through block N.
RECURSIVE RunTo(_)
RunTo(N) ==
    IF N < INI_BLOCK_NUMBER_TC THEN RunSeed
    ELSE RunEvents([view |-> RunTo(N - 1), data |-> EmptyMap,
                    self_destruct |-> <<>>, failed |-> FALSE],
                   chain.blocks[N], 1, N).view
\* The blocks whose commit left the store as it is now: the last of them is
\* the last block committed into this store.
CommittedInto == {b \in DOMAIN replay.after : replay.after[b] = db}
\* main resumes: it starts on a store that holds a last block number and
\* enters the loop without a bootstrap.
Resumes == pc \in {"off", "failed"} /\ pc' = "loop"

\* C33: with fixed chain-source responses, a run that resumes starts at the
\* block after the last block number of the store; every block from there up
\* to the last block committed into that store had left the store as it
\* found it, the resumed block is at most one past the last committed block
\* and the loop advances by one block per commit, so no block is skipped;
\* and whenever the loop stands before block N + 1 the store equals the
\* store of a single uninterrupted run from the bootstrap through block N.
C33_ResumeEquivalent ==
    /\ [][(chain.fixed /\ Resumes) =>
            /\ current_block_number' = SetMax({r.block : r \in db.block_snapshots}) + 1
            /\ db' = db
            /\ CommittedInto # {}
            /\ current_block_number' <= SetMax(CommittedInto) + 1
            /\ \A b \in current_block_number'..SetMax(CommittedInto) :
                 b \in CommittedInto]_vars
    /\ [][(pc \in {"tx", "frames", "reward", "flushed"} /\ pc' = "loop") =>
            current_block_number' = current_block_number + 1]_vars
    /\ []((chain.fixed /\ pc = "loop") => db = RunTo(current_block_number - 1))
\* A run resumed behind blocks that had written nothing: the loop stands at
\* the block after the last stored one, which is not the bootstrap block,
\* and an earlier run had committed that block and possibly later ones.
C33_Witness ==
    /\ chain.fixed
    /\ pc = "loop"
    /\ db.block_snapshots # {}
    /\ SetMax({r.block : r \in db.block_snapshots}) >= INI_BLOCK_NUMBER_TC
    /\ current_block_number = SetMax({r.block : r \in db.block_snapshots}) + 1
    /\ current_block_number \in CommittedInto
    /\ db = RunTo(current_block_number)

(***************************************************************************)
(* Conservation of taint within a block (SpecReplay).                      *)
(***************************************************************************)
RECURSIVE SumOf(_, _)
SumOf(f, S) ==
    IF S = {} THEN 0
    ELSE LET x == CHOOSE y \in S : TRUE IN f[x] + SumOf(f, S \ {x})
\* The dirty amounts of all addresses, the cache overlaid on current_dirty,
\* before and after the step.
TotalDirt == SumOf([a \in Addr |-> HeldDirt(a)], Addr)
TotalDirtNext == SumOf([a \in Addr |-> DirtNext(a)], Addr)

\* C34: within a block the total dirty amount over all addresses grows only
\* by a transfer whose recipient is a source address: a frame transfer to
\* another recipient keeps the total, a coinbase transfer to another
\* recipient keeps it, a fee transfer and the self-destruct wipes at the end
\* of a transaction can only lower it.
C34_TaintNotCreated ==
    [][(ReadsEvent /\ pc' # "failed") =>
          LET e == EventRead
          IN  CASE e.kind \in {"call", "selfdestruct", "reward"} ->
                       IF e.to \in TC_ETH_ADDRESS THEN TotalDirtNext >= TotalDirt
                       ELSE TotalDirtNext = TotalDirt
                [] e.kind = "fee" ->
                       e.to \notin TC_ETH_ADDRESS => TotalDirtNext <= TotalDirt
                [] e.kind \in {"error", "end_tx"} -> TotalDirtNext <= TotalDirt
                [] OTHER -> TRUE]_vars
\* A frame has just moved taint from a dirty sender to another address that
\* is no source address: the recipient holds a dirty amount in the cache.
C34_Witness ==
    /\ pc = "frames"
    /\ replay.pos >= 1
    /\ Len(chain.blocks[current_block_number]) >= replay.pos
    /\ LET e == chain.blocks[current_block_number][replay.pos]
       IN  /\ e.kind = "call"
           /\ e.to \notin TC_ETH_ADDRESS \cup {e.from}
           /\ e.to \in DOMAIN cache.data
           /\ cache.data[e.to].dirty_amount > 0
           /\ e.from \in DOMAIN cache.data

(***************************************************************************)
(* The shape of the address histories of the committed store (Spec).       *)
(***************************************************************************)
\* A clean snapshot is stored for the address at the block.
CleanAt(address, block_number) ==
    \E score \in set_subkey(db, block_number, address) : ~is_dirty(score)
\* Two blocks of the address's history with no block of it between them.
Consecutive(address, b, c) ==
    /\ b \in db.address_history[address]
    /\ c \in db.address_history[address]
    /\ b < c
    /\ \A x \in db.address_history[address] : ~(b < x /\ x < c)

\* C35: in the committed store, for every address with a history, a snapshot
\* is stored at every block of the history, the snapshot at the smallest
\* block is dirty, and no two consecutive blocks of the history both hold a
\* clean snapshot.
C35_HistoryShape ==
    \A a \in Addr :
        /\ \A b \in db.address_history[a] :
              /\ set_subkey(db, b, a) # {}
              /\ (\A x \in db.address_history[a] : b <= x) => ~CleanAt(a, b)
        /\ \A b, c \in Blocks : Consecutive(a, b, c) => ~(CleanAt(a, b) /\ CleanAt(a, c))
\* An address that turned dirty, clean and dirty again: three consecutive
\* blocks of its history with a clean snapshot in the middle.
C35_Witness ==
    \E a \in Addr : \E b, c, d \in Blocks :
        /\ Consecutive(a, b, c) /\ Consecutive(a, c, d)
        /\ CleanAt(a, c)
        /\ ~CleanAt(a, b) /\ ~CleanAt(a, d)

(***************************************************************************)
(* The taint a historical query returns (Spec).                            *)
(***************************************************************************)
\* The dirty amount get_address_score_by_block_number returns on the store.
DirtAt(view, address, block_number, balance) ==
    get_address_score_by_block_number(view, address, block_number, balance).dirty_amount
\* The dirty amount the committed store holds for the address now.
CurrentDirt(address) ==
    IF address \in DOMAIN db.address_score
    THEN db.address_score[address].dirty_amount
    ELSE 0
\* Block current_block_number is being committed.
CommitsBlock == pc = "flushed" /\ pc' = "loop"

\* C36: whatever balance the chain source reports, the dirty amount that
\* get_address_score_by_block_number returns for the block just processed is
\* the dirty amount of the address after that block: the one of its score in
\* the drained cache if the block touched it, recorded or not, and the one
\* the store holds for it now; for an address the block did not touch it is
\* the dirty amount returned for the block before, and the commit of a block
\* changes the answer for no earlier block.
C36_TaintAt ==
    /\ [](pc = "loop" =>
            \A a \in Addr, balance \in QueryBalances :
                /\ DirtAt(db, a, current_block_number - 1, balance) = CurrentDirt(a)
                /\ a \in DOMAIN drained =>
                      DirtAt(db, a, current_block_number - 1, balance)
                          = drained[a].dirty_amount)
    /\ [][CommitsBlock =>
            \A a \in Addr, balance \in QueryBalances :
                /\ a \notin DOMAIN drained =>
                      DirtAt(db', a, current_block_number, balance)
                          = DirtAt(db, a, current_block_number - 1, balance)
                /\ \A b \in Blocks :
                      b < current_block_number =>
                          get_address_score_by_block_number(db', a, b, balance)
                              = get_address_score_by_block_number(db, a, b, balance)]_vars
\* The block just committed touched an address without recording it: the
\* address has an older clean snapshot with a balance, no entry at the block,
\* and left the block with another balance.
C36_Witness ==
    /\ pc = "loop"
    /\ \E a \in DOMAIN drained :
         /\ HistoryUpTo(a, current_block_number - 1) # {}
         /\ current_block_number - 1 \notin db.address_history[a]
         /\ LastSnapshotUpTo(a, current_block_number - 1).balance
               \notin {0, drained[a].balance}

=============================================================================
